---- MODULE Spec2Model ----
(***************************************************************************)
(* A model of esp::gfx::CubeMap (habitat-sim): the cube-map render target, *)
(* its textures, its framebuffer, the six-face render loop and the         *)
(* per-face image persistence; and of the accessors of                     *)
(* esp::metadata::MetadataMediator.                                        *)
(*                                                                         *)
(* CORRADE_ASSERT / CORRADE_INTERNAL_ASSERT are modelled as in the default *)
(* build: a failed assertion prints its message and aborts the process.    *)
(* The field `fail` of the object record names the assertion that fired;   *)
(* once it is set the process is gone and no further operation runs.       *)
(***************************************************************************)
EXTENDS Integers, Sequences, FiniteSets, TLC

VARIABLES
  phase,   \* "unconstructed" | "live" | "aborted" | "crashed"
  cm,      \* the CubeMap object and the GL objects it owns
  cam,     \* the CubeMapCamera handed to renderToTexture
  fs,      \* the image files on disk: file name -> image
  glLog,   \* the commands the last operation issued, in submission order
  last,    \* the last call: operation, arguments, return value
  mm,      \* the MetadataMediator object
  mmLast,  \* the last call made on the mediator and what it returned
  meta,    \* a MeshMetaData object
  metaLast \* the last call made on the MeshMetaData object

vars == <<phase, cm, cam, fs, glLog, last, mm, mmLast, meta, metaLast>>

meshVars == <<meta, metaLast>>

----------------------------------------------------------------------------
(* Bounds of the model *)

\* largest face edge a caller asks for
MaxSize == 3
\* how many size-changing resets one run performs (construction included)
MaxResets == 2
\* how many drawable groups the scene graph holds at most
MaxGroups == 2
\* order of the cyclic group that stands for the camera's rigid transforms
NumTransforms == 3
\* largest index into the global asset arrays a caller passes
MaxIndex == 1

----------------------------------------------------------------------------
(* Types of CubeMap.h *)

\* CubeMap::TextureType
TextureType == {"Color", "Depth"}

\* CubeMap::Flag
Flag == {"ColorTexture", "DepthTexture", "BuildMipmap"}

\* number of cube faces: the bound of every face loop
NumFaces == 6

Faces == 0 .. (NumFaces - 1)

\* a std::map slot that was never created / a slot holding a null unique_ptr
NoEntry == [kind |-> "noentry"]
NullPtr == [kind |-> "null"]

\* nothing attached to a framebuffer attachment point
NoAttachment == [kind |-> "none", tex |-> 0, face |-> 0 - 1]

\* Magnum::NoCreate framebuffer: no GL object behind it
NoCreateFramebuffer ==
  [id |-> 0, viewport |-> <<0, 0>>,
   color |-> [i \in Faces |-> NoAttachment],
   depth |-> NoAttachment,
   drawBuffer |-> 0 - 1,
   bound |-> FALSE]

\* the data members as the in-class initialisers leave them
DefaultMembers ==
  [flags_ |-> {},
   imageSize_ |-> 0,
   textures_ |-> [t \in TextureType |-> NoEntry],
   frameBuffer_ |-> NoCreateFramebuffer,
   optionalDepthBuffer_ |-> [id |-> 1, size |-> <<0, 0>>],
   destroyed |-> {},
   next |-> 2,
   resets |-> 0,
   fail |-> "none"]

----------------------------------------------------------------------------
(* Helpers of CubeMap.cpp *)

\* colorAttachment[index]: the attachment point of face `index`
colorAttachment(index) == index

\* the flag that enables a texture type
FlagOf(type) == IF type = "Color" THEN "ColorTexture" ELSE "DepthTexture"

\* a sanity check that lets every type through
textureTypeSanityCheck_Skipped(flag, type) == TRUE

\* textureTypeSanityCheck: TRUE iff the assertion passes
textureTypeSanityCheck(flag, type) == FlagOf(type) \in flag

\* convertFaceIndexToCubeMapCoordinate: PositiveX + faceIndex, as a tag
CubeMapCoordinate == <<"+X", "-X", "+Y", "-Y", "+Z", "-Z">>

convertFaceIndexToCubeMapCoordinate(faceIndex) == CubeMapCoordinate[faceIndex + 1]

getTextureTypeFilenameString(type) == IF type = "Color" THEN "rgba" ELSE "depth"

getPixelFormat(type) == IF type = "Color" THEN "RGBA8Unorm" ELSE "R32F"

\* Mn::Math::log2 on an unsigned integer: floor(log2(n)), 0 for n <= 1
RECURSIVE log2(_)
log2(n) == IF n <= 1 THEN 0 ELSE 1 + log2(n \div 2)

----------------------------------------------------------------------------
(* Construction and reset *)

IsTex(slot) == slot.kind = "tex"

\* the GL ids of the texture objects the slot owns (none for an empty slot)
OwnedIds(slot) == IF IsTex(slot) THEN {slot.id} ELSE {}

\* the content of texture storage nothing has written yet: GL leaves it
\* unspecified; it is some value that stays what it is until a write
Fresh == 0 - 1

\* std::make_unique<CubeMapTexture>() followed by setStorage(levels, ..., size)
NewTexture(id, levels, size) ==
  [kind |-> "tex", id |-> id, size |-> size, levels |-> levels,
   face |-> [i \in Faces |-> Fresh],
   mipmapped |-> FALSE]

\* the level count with the logarithm rounded up instead of down
ColorLevels_RoundedUp(flags, imageSize) ==
  IF "BuildMipmap" \in flags THEN log2(2 * imageSize - 1) + 1 ELSE 1

\* the mip level count recreateTexture asks for, for the color texture
ColorLevels(flags, imageSize) ==
  IF "BuildMipmap" \in flags THEN log2(imageSize) + 1 ELSE 1

\* CubeMap::recreateTexture: every enabled type gets a new texture object
\* (the unique_ptr assignment destroys the old one)
recreateTexture(c) ==
  LET size == <<c.imageSize_, c.imageSize_>>
      c1 == IF "ColorTexture" \in c.flags_
            THEN [c EXCEPT
                    !.textures_["Color"] =
                       NewTexture(c.next, ColorLevels(c.flags_, c.imageSize_),
                                  size),
                    !.destroyed = @ \cup OwnedIds(c.textures_["Color"]),
                    !.next = @ + 1]
            ELSE c
  IN IF "DepthTexture" \in c1.flags_
     THEN [c1 EXCEPT
             !.textures_["Depth"] = NewTexture(c1.next, 1, size),
             !.destroyed = @ \cup OwnedIds(c1.textures_["Depth"]),
             !.next = @ + 1]
     ELSE c1

\* CubeMap::recreateFramebuffer: a new framebuffer object with nothing
\* attached; the renderbuffer object is kept and given new storage
recreateFramebuffer(c) ==
  LET viewportSize == <<c.imageSize_, c.imageSize_>>
  IN [c EXCEPT
        !.frameBuffer_ = [NoCreateFramebuffer EXCEPT
                            !.id = c.next,
                            !.viewport = viewportSize,
                            !.drawBuffer = 0],
        !.destroyed = @ \cup (IF c.frameBuffer_.id = 0 THEN {}
                              ELSE {c.frameBuffer_.id}),
        !.next = @ + 1,
        !.optionalDepthBuffer_.size = viewportSize]

\* face `index` of texture `slot`, as something a framebuffer can hold
TextureFace(slot, index) ==
  IF IsTex(slot) THEN [kind |-> "tex", tex |-> slot.id, face |-> index]
  ELSE [kind |-> "nullderef", tex |-> 0, face |-> index]

RenderbufferAttachment(rb) == [kind |-> "rb", tex |-> rb.id, face |-> 0 - 1]

\* the renderbuffer attached whether or not a depth texture is in use
attachFramebufferRenderbuffer_AlwaysRenderbuffer(c) ==
  LET c1 == IF "ColorTexture" \in c.flags_
            THEN [c EXCEPT !.frameBuffer_.color =
                    [index \in Faces |->
                       TextureFace(c.textures_["Color"], index)]]
            ELSE c
  IN [c1 EXCEPT !.frameBuffer_.depth =
        RenderbufferAttachment(c1.optionalDepthBuffer_)]

\* CubeMap::attachFramebufferRenderbuffer
attachFramebufferRenderbuffer(c) ==
  LET c1 == IF "ColorTexture" \in c.flags_
            THEN [c EXCEPT !.frameBuffer_.color =
                    [index \in Faces |->
                       TextureFace(c.textures_["Color"], index)]]
            ELSE c
  IN IF ~("DepthTexture" \in c1.flags_)
     THEN [c1 EXCEPT !.frameBuffer_.depth =
             RenderbufferAttachment(c1.optionalDepthBuffer_)]
     ELSE c1

\* reset without the early return for an unchanged size
reset_NoEarlyReturn(c, imageSize) ==
  LET c1 == [c EXCEPT !.imageSize_ = imageSize]
  IN IF ~(c1.imageSize_ > 0)
     THEN [c |-> [c1 EXCEPT !.fail = "reset: image size is illegal"],
           ret |-> FALSE]
     ELSE [c |-> attachFramebufferRenderbuffer(
                   recreateFramebuffer(
                     recreateTexture([c1 EXCEPT !.resets = @ + 1]))),
           ret |-> TRUE]

\* CubeMap::reset: <<object afterwards, return value>>
reset(c, imageSize) ==
  IF c.imageSize_ = imageSize
  THEN [c |-> c, ret |-> FALSE]
  ELSE LET c1 == [c EXCEPT !.imageSize_ = imageSize]
       IN IF ~(c1.imageSize_ > 0)
          THEN [c |-> [c1 EXCEPT !.fail = "reset: image size is illegal"],
                ret |-> FALSE]
          ELSE [c |-> attachFramebufferRenderbuffer(
                        recreateFramebuffer(
                          recreateTexture([c1 EXCEPT !.resets = @ + 1]))),
                ret |-> TRUE]

\* CubeMap::CubeMap(imageSize, flags)
CubeMapCtor(imageSize, flags) ==
  reset([DefaultMembers EXCEPT !.flags_ = flags], imageSize).c

----------------------------------------------------------------------------
(* Texture access *)

\* std::map::operator[]: a missing key is inserted with a null unique_ptr
Subscript(c, type) ==
  IF c.textures_[type].kind = "noentry"
  THEN [c EXCEPT !.textures_[type] = NullPtr]
  ELSE c

\* CubeMap::getTexture: the object afterwards and the texture id returned;
\* "nullderef" when the reference is bound through a null pointer
getTexture(c, type) ==
  IF ~textureTypeSanityCheck(c.flags_, type)
  THEN [c |-> [c EXCEPT !.fail = "getTexture: texture type not enabled"],
        ret |-> "none"]
  ELSE LET c1 == Subscript(c, type)
       IN [c |-> c1,
           ret |-> IF IsTex(c1.textures_[type]) THEN "texture" ELSE "nullderef"]

----------------------------------------------------------------------------
(* The camera (CubeMapCamera): rigid transforms are the cyclic group of    *)
(* order NumTransforms, written additively                                 *)

Inverted(t) == (NumTransforms - t) % NumTransforms

Compose(a, b) == (a + b) % NumTransforms

\* the rotation that looks along face i; no face direction is the identity
FaceRotation(i) == 1 + (i % (NumTransforms - 1))

\* the viewing matrix is the inverse of the node's transformation
updateOriginalViewingMatrix(camera) ==
  [camera EXCEPT !.originalViewingMatrix = Inverted(camera.transformation)]

\* the face transform is derived from the snapshot, not from the current
\* transformation
switchToFace(camera, i) ==
  [camera EXCEPT !.transformation =
     Compose(FaceRotation(i), Inverted(camera.originalViewingMatrix))]

restoreTransformation(camera) ==
  [camera EXCEPT !.transformation = Inverted(camera.originalViewingMatrix)]

isInSceneGraph(camera, sceneGraph) == camera.graph = sceneGraph

----------------------------------------------------------------------------
(* Rendering *)

\* one command in the log
Ev(op, face, color, depth, arg) ==
  [op |-> op, face |-> face, color |-> color, depth |-> depth, arg |-> arg,
   name |-> << >>, size |-> <<0, 0>>]

\* one file operation in the log: the file it names and an image size or result
IoEv(op, face, name, arg, size) ==
  [op |-> op, face |-> face, color |-> NoAttachment, depth |-> NoAttachment,
   arg |-> arg, name |-> name, size |-> size]

\* level 0 of the face behind attachment `att` gets value v (nothing is
\* tracked for a renderbuffer or an empty attachment point)
WriteFace(c, att, v) ==
  IF att.kind # "tex" THEN c
  ELSE [c EXCEPT !.textures_ =
          [t \in TextureType |->
             IF IsTex(c.textures_[t]) /\ c.textures_[t].id = att.tex
             THEN [c.textures_[t] EXCEPT !.face[att.face] = v,
                                         !.mipmapped = FALSE]
             ELSE c.textures_[t]]]

\* the color attachment the shader's color output is mapped to
DrawTarget(c) ==
  IF c.frameBuffer_.drawBuffer \in Faces
  THEN c.frameBuffer_.color[c.frameBuffer_.drawBuffer]
  ELSE NoAttachment

\* what the scene looks like through a camera with transformation `view`
\* after group g was drawn: the value written to the color and depth targets
SceneColor(view, g) == 10 + view
SceneDepth(view, g) == 20 + view
ClearColorValue == 0
ClearDepthValue == 1

\* Framebuffer::checkStatus(Draw) = Complete
Complete(c) ==
  LET fb == c.frameBuffer_
      atts == {fb.color[i] : i \in Faces} \cup {fb.depth}
      live == UNION {OwnedIds(c.textures_[t]) : t \in TextureType}
  IN /\ fb.id # 0
     /\ \E a \in atts : a.kind # "none"
     /\ \A a \in atts : a.kind \in {"none", "tex", "rb"}
     /\ \A a \in atts : a.kind = "tex" => a.tex \in live
     /\ \A a \in atts : a.kind = "rb" => c.optionalDepthBuffer_.size = fb.viewport
     /\ \A t \in TextureType :
          IsTex(c.textures_[t]) => c.textures_[t].size = fb.viewport

\* mapForDraw that maps the color output to attachment 0 whatever the index
mapForDraw_FirstAttachmentOnly(st, colorAttachmentIndex) ==
  LET c1 == [st.c EXCEPT !.frameBuffer_.drawBuffer = colorAttachment(0)]
  IN [st EXCEPT
        !.c = c1,
        !.log = Append(@, Ev("mapForDraw", colorAttachmentIndex,
                             DrawTarget(c1), NoAttachment,
                             colorAttachment(0)))]

\* CubeMap::mapForDraw: the color output goes to colorAttachment[index]
mapForDraw(st, colorAttachmentIndex) ==
  LET c1 == [st.c EXCEPT !.frameBuffer_.drawBuffer =
                            colorAttachment(colorAttachmentIndex)]
  IN [st EXCEPT
        !.c = c1,
        !.log = Append(@, Ev("mapForDraw", colorAttachmentIndex,
                             DrawTarget(c1), NoAttachment,
                             colorAttachment(colorAttachmentIndex)))]

\* the depth-texture branch that attaches face 0 whatever the iteration
AttachDepthFace_FirstFaceOnly(st, cubeSideIndex) ==
  IF "DepthTexture" \in st.c.flags_
  THEN LET att == TextureFace(st.c.textures_["Depth"], 0)
       IN [st EXCEPT
             !.c.frameBuffer_.depth = att,
             !.log = Append(@, Ev("attachDepth", cubeSideIndex,
                                  NoAttachment, att, 0))]
  ELSE st

\* the depth-texture branch of prepareToDraw
AttachDepthFace(st, cubeSideIndex) ==
  IF "DepthTexture" \in st.c.flags_
  THEN LET att == TextureFace(st.c.textures_["Depth"], cubeSideIndex)
       IN [st EXCEPT
             !.c.frameBuffer_.depth = att,
             !.log = Append(@, Ev("attachDepth", cubeSideIndex,
                                  NoAttachment, att, 0))]
  ELSE st

\* clearDepth(1.0f).clearColor(0, 0)
ClearBuffers(st, cubeSideIndex) ==
  LET d == st.c.frameBuffer_.depth
      k == DrawTarget(st.c)
      c1 == WriteFace(st.c, d, ClearDepthValue)
      c2 == WriteFace(c1, k, ClearColorValue)
  IN [st EXCEPT
        !.c = c2,
        !.log = @ \o <<Ev("clearDepth", cubeSideIndex, NoAttachment, d, 0),
                       Ev("clearColor", cubeSideIndex, k, NoAttachment, 0)>>]

\* the completeness assertion of prepareToDraw
CheckStatus(st, cubeSideIndex) ==
  [st EXCEPT
     !.c.fail = IF Complete(st.c) THEN @
                ELSE "prepareToDraw: framebuffer incomplete",
     !.log = Append(@, Ev("checkStatus", cubeSideIndex,
                          NoAttachment, NoAttachment, 0))]

\* prepareToDraw that clears before the depth face is attached
prepareToDraw_ClearFirst(st, cubeSideIndex) ==
  CheckStatus(
    AttachDepthFace(
      ClearBuffers(mapForDraw(st, cubeSideIndex), cubeSideIndex),
      cubeSideIndex),
    cubeSideIndex)

\* CubeMap::prepareToDraw
prepareToDraw(st, cubeSideIndex) ==
  CheckStatus(
    ClearBuffers(
      AttachDepthFace(mapForDraw(st, cubeSideIndex), cubeSideIndex),
      cubeSideIndex),
    cubeSideIndex)

\* camera.draw(group g, flags) with the framebuffer as it is now
Draw(st, iFace, g) ==
  LET d == st.c.frameBuffer_.depth
      k == DrawTarget(st.c)
      view == st.camera.transformation
      c1 == WriteFace(st.c, k, SceneColor(view, g))
      c2 == WriteFace(c1, d, SceneDepth(view, g))
  IN [st EXCEPT !.c = c2,
                !.log = Append(@, Ev("draw", iFace, k, d, g))]

\* the loop over sceneGraph.getDrawableGroups(), from group g on
RECURSIVE DrawGroups(_, _, _, _)
DrawGroups(st, iFace, g, groups) ==
  IF g > groups THEN st
  ELSE DrawGroups(Draw(st, iFace, g), iFace, g + 1, groups)

\* one iteration of the face loop
RenderFace(st, iFace, groups) ==
  LET s1 == [st EXCEPT
               !.camera = switchToFace(@, iFace),
               !.log = Append(@, Ev("switchToFace", iFace,
                                    NoAttachment, NoAttachment, 0))]
      s2 == prepareToDraw(s1, iFace)
  IN IF s2.c.fail # "none" THEN s2
     ELSE DrawGroups(s2, iFace, 1, groups)

\* for (iFace = from; iFace < 6; ++iFace)
RECURSIVE FaceLoop(_, _, _)
FaceLoop(st, iFace, groups) ==
  IF iFace >= NumFaces \/ st.c.fail # "none" THEN st
  ELSE FaceLoop(RenderFace(st, iFace, groups), iFace + 1, groups)

\* the snapshot and the bind that precede the face loop
BeginRender(st) ==
  [st EXCEPT
     !.camera = updateOriginalViewingMatrix(@),
     !.c.frameBuffer_.bound = TRUE,
     !.log = @ \o <<Ev("updateOriginalViewingMatrix", 0 - 1,
                       NoAttachment, NoAttachment, 0),
                    Ev("bind", 0 - 1, NoAttachment, NoAttachment, 0)>>]

\* the face loop left without restoring the camera
RestoreCamera_Forgotten(st) == st

\* camera.restoreTransformation() after the loop
RestoreCamera(st) ==
  [st EXCEPT
     !.camera = restoreTransformation(@),
     !.log = Append(@, Ev("restoreTransformation", 0 - 1,
                          NoAttachment, NoAttachment, 0))]

\* generateMipmap() on the texture of `type`
GenerateMipmap(st, type) ==
  LET slot == st.c.textures_[type]
  IN [st EXCEPT
        !.c.textures_[type] =
           IF IsTex(slot) THEN [slot EXCEPT !.mipmapped = TRUE] ELSE slot,
        !.log = Append(@, Ev("generateMipmap", 0 - 1,
                             TextureFace(slot, 0 - 1), NoAttachment, 0))]

\* the mipmap step that looks at BuildMipmap alone
FinishRender_AnyTexture(st) ==
  IF "BuildMipmap" \in st.c.flags_
  THEN GenerateMipmap(st, "Color")
  ELSE st

\* the mipmap step that ends renderToTexture
FinishRender(st) ==
  IF "BuildMipmap" \in st.c.flags_ /\ "ColorTexture" \in st.c.flags_
  THEN GenerateMipmap(st, "Color")
  ELSE st

\* renderToTexture that checks the viewport after the snapshot and the bind
renderToTexture_LateCheck(c, camera, sceneGraph, groups) ==
  LET st == [c |-> c, camera |-> camera, log |-> << >>]
  IN IF ~isInSceneGraph(camera, sceneGraph)
     THEN [st EXCEPT !.c.fail = "renderToTexture: camera not in scene graph"]
     ELSE LET s0 == BeginRender(st)
          IN IF camera.viewport # <<c.imageSize_, c.imageSize_>>
             THEN [s0 EXCEPT !.c.fail = "renderToTexture: viewport is not correct"]
             ELSE LET s1 == FaceLoop(s0, 0, groups)
                  IN IF s1.c.fail # "none" THEN s1
                     ELSE FinishRender(RestoreCamera(s1))

\* CubeMap::renderToTexture: [c, camera, log] afterwards
renderToTexture(c, camera, sceneGraph, groups) ==
  LET st == [c |-> c, camera |-> camera, log |-> << >>]
  IN IF ~isInSceneGraph(camera, sceneGraph)
     THEN [st EXCEPT !.c.fail = "renderToTexture: camera not in scene graph"]
     ELSE IF camera.viewport # <<c.imageSize_, c.imageSize_>>
     THEN [st EXCEPT !.c.fail = "renderToTexture: viewport is not correct"]
     ELSE LET s1 == FaceLoop(BeginRender(st), 0, groups)
          IN IF s1.c.fail # "none" THEN s1
             ELSE FinishRender(RestoreCamera(s1))

----------------------------------------------------------------------------
(* Persistence *)

\* coordStrings of saveTexture and loadTexture
coordStrings == <<"+X", "-X", "+Y", "-Y", "+Z", "-Z">>

\* the file name with the face tags taken in the reverse order
FileName_ReversedTags(prefix, type, iFace, ext) ==
  <<prefix, getTextureTypeFilenameString(type), coordStrings[NumFaces - iFace],
    ext>>

\* formatString("{}.{}.{}.{}", prefix, typeTag, faceTag, ext): the four parts
FileName(prefix, type, iFace, ext) ==
  <<prefix, getTextureTypeFilenameString(type), coordStrings[iFace + 1], ext>>

\* the extension saveTexture writes for a texture type
SaveExtension(type) == IF type = "Color" THEN "png" ELSE "hdr"

\* textures_[type]->image(face, 0, format): level 0 of one face read back
ReadFace(slot, type, iFace) ==
  [size |-> slot.size, format |-> getPixelFormat(type), px |-> slot.face[iFace]]

\* an export that stores the single channel as red and leaves green and blue 0
Encode_RedOnly(image) ==
  IF image.format = "R32F"
  THEN [size |-> image.size, format |-> "RGB32F", px |-> <<image.px, 0, 0>>]
  ELSE image

\* what exportToFile stores: a png keeps the RGBA8 pixels, an hdr file holds
\* three float channels, the single R32F channel repeated
Encode(image) ==
  IF image.format = "R32F"
  THEN [size |-> image.size, format |-> "RGB32F",
        px |-> <<image.px, image.px, image.px>>]
  ELSE image

\* the file system with file `name` holding `image`
WriteFile(files, name, image) ==
  [n \in DOMAIN files \cup {name} |-> IF n = name THEN image ELSE files[n]]

NoFile == [size |-> <<0, 0>>, format |-> "none", px |-> 0]

\* image files of another origin under prefix "ext": six faces of one type
\* of edge T with the extension saveTexture uses, where face `bad` (if any)
\* is not square (kind "nonsquare") or has another edge (kind "othersize")
ExternalImage(type, T, bad, kind, iFace) ==
  [size |-> IF iFace # bad THEN <<T, T>>
            ELSE IF kind = "nonsquare" THEN <<T, T + 1>>
            ELSE <<T + 1, T + 1>>,
   format |-> IF type = "Color" THEN "RGBA8Unorm" ELSE "RGB32F",
   px |-> IF type = "Color" THEN 30 + iFace
          ELSE <<30 + iFace, 40 + iFace, 50 + iFace>>]

\* the face a face tag names
FaceOfTag(tag) == CHOOSE i \in Faces : coordStrings[i + 1] = tag

\* the disk a call reads: the files written so far (fs) and the external ones
Disk(files, type, T, bad, kind) ==
  [written |-> files, type |-> type, T |-> T, bad |-> bad, kind |-> kind]

IsExternal(disk, name) ==
  /\ name[1] = "ext"
  /\ name[2] = getTextureTypeFilenameString(disk.type)
  /\ name[4] = SaveExtension(disk.type)

\* importer->openFile(name); importer->image2D(0)
ReadFile(disk, name) ==
  IF IsExternal(disk, name)
  THEN ExternalImage(disk.type, disk.T, disk.bad, disk.kind, FaceOfTag(name[3]))
  ELSE IF name \in DOMAIN disk.written THEN disk.written[name]
  ELSE NoFile

\* for (iFace = from; iFace < 6; ++iFace) of saveTexture;
\* st = [c, files, log, ret, done]
RECURSIVE SaveLoop(_, _, _, _, _)
SaveLoop(st, type, imageFilePrefix, failAt, iFace) ==
  IF iFace >= NumFaces THEN [st EXCEPT !.ret = "true", !.done = TRUE]
  ELSE
    LET c1 == Subscript(st.c, type)
        slot == c1.textures_[type]
        filename == FileName(imageFilePrefix, type, iFace, SaveExtension(type))
    IN IF ~IsTex(slot)
       THEN [st EXCEPT !.c = c1, !.ret = "nullderef", !.done = TRUE]
       ELSE IF iFace = failAt
       THEN [st EXCEPT
               !.c = c1,
               !.log = @ \o <<Ev("image", iFace, TextureFace(slot, iFace),
                                 NoAttachment, 0),
                              IoEv("exportToFile", iFace, filename, 0, slot.size)>>,
               !.ret = "false", !.done = TRUE]
       ELSE SaveLoop(
              [st EXCEPT
                 !.c = c1,
                 !.files = WriteFile(@, filename,
                                     Encode(ReadFace(slot, type, iFace))),
                 !.log = @ \o <<Ev("image", iFace, TextureFace(slot, iFace),
                                   NoAttachment, 0),
                                IoEv("exportToFile", iFace, filename, 1, slot.size),
                                IoEv("logInfo", iFace, filename, 0, <<0, 0>>)>>],
              type, imageFilePrefix, failAt, iFace + 1)

\* saveTexture that reports success when the converter cannot be instantiated
saveTexture_MissingConverterIsSuccess(c, files, type, imageFilePrefix, converterOk, failAt) ==
  LET st == [c |-> c, files |-> files, log |-> << >>, ret |-> "none",
             done |-> FALSE]
  IN IF ~textureTypeSanityCheck(c.flags_, type)
     THEN [st EXCEPT !.c.fail = "saveTexture: texture type not enabled"]
     ELSE IF ~converterOk
     THEN [st EXCEPT !.ret = "true"]
     ELSE SaveLoop(st, type, imageFilePrefix, failAt, 0)

\* CubeMap::saveTexture; converterOk: the AnyImageConverter plugin loads;
\* failAt: the face whose export fails (NumFaces: none does)
saveTexture(c, files, type, imageFilePrefix, converterOk, failAt) ==
  LET st == [c |-> c, files |-> files, log |-> << >>, ret |-> "none",
             done |-> FALSE]
  IN IF ~textureTypeSanityCheck(c.flags_, type)
     THEN [st EXCEPT !.c.fail = "saveTexture: texture type not enabled"]
     ELSE IF ~converterOk
     THEN [st EXCEPT !.ret = "false"]
     ELSE SaveLoop(st, type, imageFilePrefix, failAt, 0)

OtherType(type) == IF type = "Color" THEN "Depth" ELSE "Color"

\* what a use of the pointer `texture` (taken from textures_[type]) reaches:
\* the texture object with that id while it is alive; once the object is
\* destroyed the use is undefined and `dangling` names what the build makes
\* of it: "crash", "lost" (the call has no effect), or "other": the call lands
\* in the live texture of the other type, whose object took over the freed
\* memory and GL name
Deref(c, type, id, dangling) ==
  IF IsTex(c.textures_[type]) /\ c.textures_[type].id = id THEN type
  ELSE IF dangling = "other" /\ IsTex(c.textures_[OtherType(type)])
  THEN OtherType(type)
  ELSE IF dangling = "crash" THEN "crash" ELSE "lost"

\* the pixel data loadTexture hands to setSubImage: the image as it is for
\* Color; for Depth the first component of every three-channel pixel
UploadData(type, imageData) ==
  IF type = "Color" THEN imageData.px ELSE imageData.px[1]

\* texture->setSubImage(face, 0, {}, data) through the pointer `texture`
SetSubImage(st, type, texture, dangling, iFace, data) ==
  LET target == Deref(st.c, type, texture, dangling)
  IN IF target = "crash"
     THEN [st EXCEPT !.ret = "crash", !.done = TRUE]
     ELSE IF target = "lost"
     THEN [st EXCEPT !.log = Append(@, Ev("setSubImage", iFace,
                                          [kind |-> "dangling", tex |-> texture,
                                           face |-> iFace],
                                          NoAttachment, 0))]
     ELSE [st EXCEPT
             !.c.textures_[target].face[iFace] = data,
             !.c.textures_[target].mipmapped = FALSE,
             !.log = Append(@, Ev("setSubImage", iFace,
                                  TextureFace(st.c.textures_[target], iFace),
                                  NoAttachment, 0))]

\* the face loop that uploads face 0 before it resets the object
RECURSIVE LoadLoop_UploadBeforeReset(_, _, _, _, _, _, _, _)
LoadLoop_UploadBeforeReset(st, type, imageFilePrefix, imageFileExtension, texture, dangling, imageSize, iFace) ==
  IF iFace >= NumFaces \/ st.done \/ st.c.fail # "none" THEN st
  ELSE
    LET filename == FileName(imageFilePrefix, type, iFace, imageFileExtension)
        imageData == ReadFile(st.files, filename)
        size == imageData.size
        s1 == [st EXCEPT !.log = Append(@, IoEv("openFile", iFace, filename,
                                                0, size))]
    IN IF imageData.format = "none"
       THEN [s1 EXCEPT !.c.fail = "loadTexture: no image data"]
       ELSE IF size[1] # size[2]
       THEN [s1 EXCEPT !.c.fail = "loadTexture: image must be a square"]
       ELSE IF iFace # 0 /\ size[1] # imageSize
       THEN [s1 EXCEPT !.c.fail = "loadTexture: images must have the same size"]
       ELSE
         LET s2 == SetSubImage(s1, type, texture, dangling, iFace,
                               UploadData(type, imageData))
             r == IF iFace = 0 THEN reset(s2.c, size[1])
                  ELSE [c |-> s2.c, ret |-> FALSE]
             s3 == [s2 EXCEPT
                      !.c = r.c,
                      !.log = IF iFace = 0
                              THEN Append(@, IoEv("reset", iFace, << >>,
                                                  IF r.ret THEN 1 ELSE 0,
                                                  <<size[1], size[1]>>))
                              ELSE @]
         IN LoadLoop_UploadBeforeReset(
              s3, type, imageFilePrefix, imageFileExtension, texture,
              dangling, IF iFace = 0 THEN size[1] ELSE imageSize, iFace + 1)

\* the face loop of loadTexture; imageSize is the local of that name
RECURSIVE LoadLoop(_, _, _, _, _, _, _, _)
LoadLoop(st, type, imageFilePrefix, imageFileExtension, texture, dangling, imageSize, iFace) ==
  IF iFace >= NumFaces \/ st.done \/ st.c.fail # "none" THEN st
  ELSE
    LET filename == FileName(imageFilePrefix, type, iFace, imageFileExtension)
        imageData == ReadFile(st.files, filename)
        size == imageData.size
        s1 == [st EXCEPT !.log = Append(@, IoEv("openFile", iFace, filename,
                                                0, size))]
    IN IF imageData.format = "none"
       THEN [s1 EXCEPT !.c.fail = "loadTexture: no image data"]
       ELSE IF size[1] # size[2]
       THEN [s1 EXCEPT !.c.fail = "loadTexture: image must be a square"]
       ELSE IF iFace # 0 /\ size[1] # imageSize
       THEN [s1 EXCEPT !.c.fail = "loadTexture: images must have the same size"]
       ELSE
         LET r == IF iFace = 0 THEN reset(s1.c, size[1])
                  ELSE [c |-> s1.c, ret |-> FALSE]
             s2 == [s1 EXCEPT
                      !.c = r.c,
                      !.log = IF iFace = 0
                              THEN Append(@, IoEv("reset", iFace, << >>,
                                                  IF r.ret THEN 1 ELSE 0,
                                                  <<size[1], size[1]>>))
                              ELSE @]
             s3 == SetSubImage(s2, type, texture, dangling, iFace,
                               UploadData(type, imageData))
         IN LoadLoop(s3, type, imageFilePrefix, imageFileExtension, texture,
                     dangling,
                     IF iFace = 0 THEN size[1] ELSE imageSize, iFace + 1)

\* texture->generateMipmap() through the pointer `texture`
GenerateMipmapVia(st, type, texture, dangling) ==
  LET target == Deref(st.c, type, texture, dangling)
  IN IF target = "crash"
     THEN [st EXCEPT !.ret = "crash", !.done = TRUE]
     ELSE IF target = "lost"
     THEN [st EXCEPT !.log = Append(@, Ev("generateMipmap", 0 - 1,
                                          [kind |-> "dangling", tex |-> texture,
                                           face |-> 0 - 1],
                                          NoAttachment, 0))]
     ELSE GenerateMipmap(st, target)

\* CubeMap::loadTexture; importerOk: the AnyImageImporter plugin loads
loadTexture(c, files, type, imageFilePrefix, imageFileExtension, importerOk, dangling) ==
  LET st == [c |-> c, files |-> files, log |-> << >>, ret |-> "void",
             done |-> FALSE]
  IN IF ~textureTypeSanityCheck(c.flags_, type)
     THEN [st EXCEPT !.c.fail = "loadTexture: texture type not enabled"]
     ELSE IF ~importerOk
     THEN [st EXCEPT !.c.fail = "loadTexture: no importer"]
     ELSE
       LET c1 == Subscript(c, type)
           slot == c1.textures_[type]
       IN IF ~IsTex(slot)
          THEN [st EXCEPT !.c = [c1 EXCEPT
                                   !.fail = "loadTexture: unknown texture type"]]
          ELSE
            LET s1 == LoadLoop([st EXCEPT !.c = c1], type, imageFilePrefix,
                               imageFileExtension, slot.id, dangling, 0, 0)
            IN IF s1.done \/ s1.c.fail # "none" THEN s1
               ELSE IF "BuildMipmap" \in s1.c.flags_
                       /\ "ColorTexture" \in s1.c.flags_
               THEN GenerateMipmapVia(s1, type, slot.id, dangling)
               ELSE s1

----------------------------------------------------------------------------
(* esp::metadata::MetadataMediator *)

\* a null shared pointer
nullptr == [kind |-> "nullptr"]

\* an attributes manager object: the dataset that owns it ("" for the
\* mediator's own physics manager) and the attributes it manages
Manager(owner, what) == [kind |-> "manager", owner |-> owner, what |-> what]

\* the empty std::string and the empty std::map<std::string, std::string>
EmptyString == << >>
EmptyMap == [h \in {} |-> EmptyString]

\* a SceneDatasetAttributes as createSceneDataset registers it: its five
\* managers and two empty handle-to-path maps
SceneDatasetAttributes(name) ==
  [kind |-> "dataset",
   name |-> name,
   assetAttributesManager |-> Manager(name, "AssetAttributes"),
   lightLayoutAttributesManager |-> Manager(name, "LightLayoutAttributes"),
   objectAttributesManager |-> Manager(name, "ObjectAttributes"),
   sceneAttributesManager |-> Manager(name, "SceneAttributes"),
   stageAttributesManager |-> Manager(name, "StageAttributes"),
   navmeshMap |-> EmptyMap,
   semanticSceneDescrMap |-> EmptyMap]

\* the data members before the constructor body has run
NoMediator ==
  [constructed |-> FALSE,
   activeSceneDataset_ |-> EmptyString,
   sceneDatasetAttributesManager_ |-> [n \in {} |-> nullptr],
   physicsAttributesManager_ |-> nullptr]

\* a line written to the log
LogLine(level, who) == [level |-> level, who |-> who]

\* what a call hands back: the value and the log lines it wrote
Returned(ret, log) == [ret |-> ret, log |-> log]

\* the value kinds the accessors return
PathValue(path) == [kind |-> "path", path |-> path]
MapValue(map) == [kind |-> "map", map |-> map]

\* sceneDatasetAttributesManager_->getObjectByHandle(handle): the registered
\* object of exactly that handle, not a copy, or nullptr
getObjectByHandle(manager, handle) ==
  IF handle \in DOMAIN manager THEN manager[handle] ELSE nullptr

\* getActiveDSAttribs that hands out the default dataset when the active
\* name is unknown
getActiveDSAttribs_DefaultsWhenUnknown(m) ==
  LET datasetAttr == getObjectByHandle(m.sceneDatasetAttributesManager_,
                                       m.activeSceneDataset_)
  IN IF datasetAttr = nullptr
     THEN Returned(getObjectByHandle(m.sceneDatasetAttributesManager_,
                                     <<"default">>),
                   <<LogLine("ERROR", "getActiveDSAttribs")>>)
     ELSE Returned(datasetAttr, << >>)

\* MetadataMediator::getActiveDSAttribs
getActiveDSAttribs(m) ==
  LET datasetAttr == getObjectByHandle(m.sceneDatasetAttributesManager_,
                                       m.activeSceneDataset_)
  IN IF datasetAttr = nullptr
     THEN Returned(nullptr, <<LogLine("ERROR", "getActiveDSAttribs")>>)
     ELSE Returned(datasetAttr, << >>)

\* the five dataset-scoped manager accessors
getAssetAttributesManager(m) ==
  LET r == getActiveDSAttribs(m)
  IN Returned(IF r.ret = nullptr THEN nullptr
              ELSE r.ret.assetAttributesManager, r.log)

getLightLayoutAttributesManager(m) ==
  LET r == getActiveDSAttribs(m)
  IN Returned(IF r.ret = nullptr THEN nullptr
              ELSE r.ret.lightLayoutAttributesManager, r.log)

getObjectAttributesManager(m) ==
  LET r == getActiveDSAttribs(m)
  IN Returned(IF r.ret = nullptr THEN nullptr
              ELSE r.ret.objectAttributesManager, r.log)

getSceneAttributesManager(m) ==
  LET r == getActiveDSAttribs(m)
  IN Returned(IF r.ret = nullptr THEN nullptr
              ELSE r.ret.sceneAttributesManager, r.log)

getStageAttributesManager(m) ==
  LET r == getActiveDSAttribs(m)
  IN Returned(IF r.ret = nullptr THEN nullptr
              ELSE r.ret.stageAttributesManager, r.log)

getPhysicsAttributesManager(m) == Returned(m.physicsAttributesManager_, << >>)

\* copies of the active dataset's maps
getActiveNavmeshMap(m) ==
  LET r == getActiveDSAttribs(m)
  IN Returned(IF r.ret = nullptr THEN MapValue(EmptyMap)
              ELSE MapValue(r.ret.navmeshMap), r.log)

getActiveSemanticSceneDescriptorMap(m) ==
  LET r == getActiveDSAttribs(m)
  IN Returned(IF r.ret = nullptr THEN MapValue(EmptyMap)
              ELSE MapValue(r.ret.semanticSceneDescrMap), r.log)

\* a is a contiguous part of b
IsSubstring(a, b) ==
  \E k \in 0 .. (Len(b) - Len(a)) :
     \A j \in 1 .. Len(a) : b[k + j] = a[j]

\* the lookup that is content with a key the handle is a part of
getFilePathForHandle_Substring(assetHandle, assetMapping, msgString) ==
  LET hits == {k \in DOMAIN assetMapping : IsSubstring(assetHandle, k)}
  IN IF hits = {}
     THEN Returned(PathValue(EmptyString), <<LogLine("WARNING", msgString)>>)
     ELSE Returned(PathValue(assetMapping[CHOOSE k \in hits : TRUE]), << >>)

\* MetadataMediator::getFilePathForHandle
getFilePathForHandle(assetHandle, assetMapping, msgString) ==
  IF assetHandle \notin DOMAIN assetMapping
  THEN Returned(PathValue(EmptyString), <<LogLine("WARNING", msgString)>>)
  ELSE Returned(PathValue(assetMapping[assetHandle]), << >>)

\* MetadataMediator::getNavmeshPathByHandle
getNavmeshPathByHandle(m, navMeshHandle) ==
  LET r == getActiveDSAttribs(m)
  IN IF r.ret = nullptr
     THEN Returned(PathValue(EmptyString),
                   r.log \o <<LogLine("ERROR", "getNavmeshPathByHandle")>>)
     ELSE LET p == getFilePathForHandle(navMeshHandle, r.ret.navmeshMap,
                                        "getNavmeshPathByHandle")
          IN Returned(p.ret, r.log \o p.log)

\* MetadataMediator::getSemanticSceneDescriptorPathByHandle
getSemanticSceneDescriptorPathByHandle(m, ssDescrHandle) ==
  LET r == getActiveDSAttribs(m)
  IN IF r.ret = nullptr
     THEN Returned(PathValue(EmptyString),
                   r.log \o <<LogLine("ERROR",
                                      "getSemanticSceneDescriptorPathByHandle")>>)
     ELSE LET p == getFilePathForHandle(
                     ssDescrHandle, r.ret.semanticSceneDescrMap,
                     "getSemanticSceneDescriptorPathByHandle")
          IN Returned(p.ret, r.log \o p.log)

\* createSceneDataset(sceneDatasetName, overwrite); loaded: the dataset could
\* be loaded or created.  An existing dataset is kept unless overwrite is set
createSceneDataset(m, sceneDatasetName, overwrite, loaded) ==
  LET reg == m.sceneDatasetAttributesManager_
  IN IF sceneDatasetName \in DOMAIN reg /\ ~overwrite
     THEN [m |-> m, ret |-> FALSE]
     ELSE IF loaded
     THEN [m |-> [m EXCEPT !.sceneDatasetAttributesManager_ =
                     [n \in DOMAIN reg \cup {sceneDatasetName} |->
                        IF n = sceneDatasetName
                        THEN SceneDatasetAttributes(n) ELSE reg[n]]],
           ret |-> TRUE]
     ELSE [m |-> [m EXCEPT !.sceneDatasetAttributesManager_ =
                     [n \in DOMAIN reg \ {sceneDatasetName} |-> reg[n]]],
           ret |-> FALSE]

\* setActiveSceneDatasetName: an existing dataset becomes the active one; an
\* unknown one is created first and becomes active if that succeeds
setActiveSceneDatasetName(m, sceneDatasetName, loaded) ==
  IF sceneDatasetName \in DOMAIN m.sceneDatasetAttributesManager_
  THEN [m |-> [m EXCEPT !.activeSceneDataset_ = sceneDatasetName],
        ret |-> TRUE]
  ELSE LET r == createSceneDataset(m, sceneDatasetName, FALSE, loaded)
       IN [m |-> IF r.ret
                 THEN [r.m EXCEPT !.activeSceneDataset_ = sceneDatasetName]
                 ELSE r.m,
           ret |-> r.ret]

\* removeSceneDataset: fails for the active dataset and for an unknown one
removeSceneDataset(m, sceneDatasetName) ==
  LET reg == m.sceneDatasetAttributesManager_
  IN IF sceneDatasetName = m.activeSceneDataset_
        \/ sceneDatasetName \notin DOMAIN reg
     THEN [m |-> m, ret |-> FALSE]
     ELSE [m |-> [m EXCEPT !.sceneDatasetAttributesManager_ =
                     [n \in DOMAIN reg \ {sceneDatasetName} |-> reg[n]]],
           ret |-> TRUE]

\* the file paths makeSceneAndReferenceStage synthesizes for a scene name
NavmeshPath(dataset, sceneName) == <<"navmesh">> \o dataset \o sceneName
SemanticPath(dataset, sceneName) == <<"semantic">> \o dataset \o sceneName

\* f with key k mapped to v
MapPut(f, k, v) == [h \in DOMAIN f \cup {k} |-> IF h = k THEN v ELSE f[h]]

\* getSceneAttributesByName for a scene that is only a stage on disk: the
\* navmesh and (if the stage has one) the semantic scene descriptor path are
\* registered under the scene's name in the active dataset
getSceneAttributesByName(m, sceneName, hasSemantic) ==
  LET r == getActiveDSAttribs(m)
  IN IF r.ret = nullptr THEN m
     ELSE LET name == r.ret.name
              withNav == [r.ret EXCEPT
                            !.navmeshMap =
                               MapPut(@, sceneName, NavmeshPath(name, sceneName))]
              withBoth == IF hasSemantic
                          THEN [withNav EXCEPT
                                  !.semanticSceneDescrMap =
                                     MapPut(@, sceneName,
                                            SemanticPath(name, sceneName))]
                          ELSE withNav
          IN [m EXCEPT !.sceneDatasetAttributesManager_[name] = withBoth]

\* buildAttributesManagers: the two managers, with the dataset "default"
buildAttributesManagers(m) ==
  createSceneDataset(
    [m EXCEPT !.constructed = TRUE,
              !.physicsAttributesManager_ = Manager(EmptyString,
                                                    "PhysicsAttributes")],
    <<"default">>, FALSE, TRUE).m

\* MetadataMediator::MetadataMediator(cfg): the managers are built, then the
\* configuration's dataset is made the active one if it can be
MetadataMediatorCtor(sceneDatasetConfigFile, loaded) ==
  setActiveSceneDatasetName(buildAttributesManagers(NoMediator),
                            sceneDatasetConfigFile, loaded).m

\* a call record of the mediator
MMCall(op, arg, r) == [op |-> op, arg |-> arg, ret |-> r.ret, log |-> r.log]
NoMMCall == MMCall("none", EmptyString, Returned(nullptr, << >>))

\* dataset names and scene / asset handles the callers use: strings as
\* sequences of their parts, one handle a proper part of another
DatasetNames == {<<"default">>, <<"ds">>}
Handles == {<<"a">>, <<"a", "b">>, <<"b">>}
SceneNames == {<<"a", "b">>, <<"b">>}

----------------------------------------------------------------------------
(* What the callers pass in *)

SizeArgs == (0 - 1) .. MaxSize
FlagSets == SUBSET Flag
Transforms == 0 .. (NumTransforms - 1)
\* the square viewports and one that is not square
Viewports == {<<w, w>> : w \in 1 .. MaxSize} \cup {<<1, 2>>}
SceneGraphs == {"A", "B"}
Extensions == {"png", "hdr"}
DanglingOutcomes == {"crash", "lost", "other"}


BoolStr(b) == IF b THEN "true" ELSE "false"

\* the phase a call ends in
PhaseAfter(c) == IF c.fail = "none" THEN "live" ELSE "aborted"

Call(op, type, size, ret) ==
  [op |-> op, type |-> type, size |-> size, ret |-> ret, extra |-> << >>]

----------------------------------------------------------------------------
(* MeshMetaData.h: the index ranges of an asset and the root of its        *)
(* transformation hierarchy.  transformFromLocalToParent is a Magnum       *)
(* matrix no operation of the struct reads or writes; it is left out.      *)

\* ID_UNDEFINED of esp/core/esp.h
ID_UNDEFINED == 0 - 1

\* the indices a caller passes
IndexValues == ID_UNDEFINED .. MaxIndex

\* std::make_pair
make_pair(first, second) == <<first, second>>

\* MeshTransformNode::MeshTransformNode()
MeshTransformNode ==
  [meshIDLocal |-> ID_UNDEFINED,
   materialIDLocal |-> ID_UNDEFINED,
   componentID |-> ID_UNDEFINED,
   children |-> << >>]

\* MeshMetaData() = default: the default member initializers
MeshMetaDataDefault ==
  [meshIndex |-> make_pair(ID_UNDEFINED, ID_UNDEFINED),
   textureIndex |-> make_pair(ID_UNDEFINED, ID_UNDEFINED),
   materialIndex |-> make_pair(ID_UNDEFINED, ID_UNDEFINED),
   root |-> MeshTransformNode]

\* MeshMetaData(meshStart, meshEnd, textureStart, textureEnd, materialStart,
\* materialEnd): the members are default-initialized, then the body assigns
MeshMetaData(meshStart, meshEnd, textureStart, textureEnd, materialStart, materialEnd) ==
  [MeshMetaDataDefault EXCEPT
     !.meshIndex = make_pair(meshStart, meshEnd),
     !.textureIndex = make_pair(textureStart, textureEnd),
     !.materialIndex = make_pair(materialStart, materialEnd)]

\* the arguments of a constructor call with n of them given: the trailing
\* ones take their default, ID_UNDEFINED
DefaultArguments(given) ==
  [k \in 1..6 |-> IF k <= Len(given) THEN given[k] ELSE ID_UNDEFINED]

\* MeshMetaData::setMeshIndices
setMeshIndices(m, meshStart, meshEnd) ==
  [m EXCEPT !.meshIndex[1] = meshStart, !.meshIndex[2] = meshEnd]

setTextureIndices_WritesMeshIndex(m, textureStart, textureEnd) ==
  [m EXCEPT !.meshIndex[1] = textureStart, !.meshIndex[2] = textureEnd]

\* MeshMetaData::setTextureIndices
setTextureIndices(m, textureStart, textureEnd) ==
  [m EXCEPT !.textureIndex[1] = textureStart, !.textureIndex[2] = textureEnd]

\* MeshMetaData::setMaterialIndices
setMaterialIndices(m, materialStart, materialEnd) ==
  [m EXCEPT !.materialIndex[1] = materialStart, !.materialIndex[2] = materialEnd]

\* no MeshMetaData object yet
NoMeshMetaData == [kind |-> "none"]

MeshCall(op, args) == [op |-> op, args |-> args]

NoMeshCall == MeshCall("none", << >>)

----------------------------------------------------------------------------
(* The operations *)

Init ==
  /\ phase = "unconstructed"
  /\ cm = DefaultMembers
  /\ cam = [graph |-> "A", viewport |-> <<1, 1>>,
            transformation |-> 0, originalViewingMatrix |-> 0]
  /\ fs = [n \in {} |-> NoFile]
  /\ glLog = << >>
  /\ last = Call("none", "none", 0, "none")
  /\ mm = NoMediator
  /\ mmLast = NoMMCall
  /\ meta = NoMeshMetaData
  /\ metaLast = NoMeshCall

Construct ==
  /\ phase = "unconstructed"
  /\ \E imageSize \in SizeArgs, flags \in FlagSets :
       \E c \in {CubeMapCtor(imageSize, flags)} :
          /\ cm' = c
          /\ phase' = PhaseAfter(c)
          /\ last' = Call("CubeMap", "none", imageSize, "none")
  /\ glLog' = << >>
  /\ UNCHANGED <<cam, fs>>
  /\ UNCHANGED <<mm, mmLast, meshVars>>

Reset ==
  /\ phase = "live"
  /\ last.op = "none"
  /\ \E imageSize \in SizeArgs :
       /\ cm.resets < MaxResets \/ imageSize = cm.imageSize_
       /\ \E r \in {reset(cm, imageSize)} :
             /\ cm' = r.c
             /\ phase' = PhaseAfter(r.c)
             /\ last' = Call("reset", "none", imageSize, BoolStr(r.ret))
  /\ glLog' = << >>
  /\ UNCHANGED <<cam, fs>>
  /\ UNCHANGED <<mm, mmLast, meshVars>>

GetTexture ==
  /\ phase = "live"
  /\ last.op = "none"
  /\ \E type \in TextureType :
       \E r \in {getTexture(cm, type)} :
          /\ cm' = r.c
          /\ phase' = IF r.ret = "nullderef" THEN "crashed"
                      ELSE PhaseAfter(r.c)
          /\ last' = Call("getTexture", type, 0, r.ret)
  /\ glLog' = << >>
  /\ UNCHANGED <<cam, fs>>
  /\ UNCHANGED <<mm, mmLast, meshVars>>

RenderToTexture ==
  /\ phase = "live"
  /\ last.op = "none"
  /\ \E sceneGraph \in SceneGraphs, groups \in 0 .. MaxGroups :
       \E r \in {renderToTexture(cm, cam, sceneGraph, groups)} :
          /\ cm' = r.c
          /\ cam' = r.camera
          /\ glLog' = r.log
          /\ phase' = PhaseAfter(r.c)
          /\ last' = Call("renderToTexture", sceneGraph, groups, "void")
  /\ UNCHANGED fs
  /\ UNCHANGED <<mm, mmLast, meshVars>>

\* the caller moves the camera node
SetTransformation ==
  /\ phase = "live"
  /\ last.op = "none"
  /\ \E t \in Transforms : cam' = [cam EXCEPT !.transformation = t]
  /\ UNCHANGED <<phase, cm, fs, glLog, last>>
  /\ UNCHANGED <<mm, mmLast, meshVars>>

\* the caller sets the camera's viewport
SetViewport ==
  /\ phase = "live"
  /\ last.op = "none"
  /\ \E vp \in Viewports : cam' = [cam EXCEPT !.viewport = vp]
  /\ UNCHANGED <<phase, cm, fs, glLog, last>>
  /\ UNCHANGED <<mm, mmLast, meshVars>>

\* some file is on disk already: a run saves once
Saved(files) == DOMAIN files # {}

SaveTexture ==
  /\ phase = "live"
  /\ last.op = "none"
  /\ \E type \in TextureType, converterOk \in BOOLEAN, failAt \in 0 .. NumFaces :
       /\ ~Saved(fs)
       /\ \E r \in {saveTexture(cm, fs, type, "p", converterOk, failAt)} :
            /\ cm' = r.c
            /\ fs' = r.files
            /\ glLog' = r.log
            /\ phase' = IF r.ret = "nullderef" THEN "crashed"
                        ELSE PhaseAfter(r.c)
            /\ last' = [Call("saveTexture", type, failAt, r.ret)
                          EXCEPT !.extra = <<"p", converterOk>>]
  /\ UNCHANGED cam
  /\ UNCHANGED <<mm, mmLast, meshVars>>

\* the edges of the external file sets that hold a face loadTexture rejects:
\* one the object can have already and one it then has not
BadSetEdges == {1, 2}

\* where a loadTexture call reads from: the files saveTexture wrote, with
\* either extension, or external files
LoadSources ==
  {[prefix |-> "p", ext |-> e, T |-> 1, bad |-> NumFaces, kind |-> "othersize"] :
     e \in Extensions}
  \cup
  {[prefix |-> "ext", ext |-> "any", T |-> x[1], bad |-> x[2], kind |-> x[3]] :
     x \in (BadSetEdges \X Faces \X {"nonsquare", "othersize"})
           \cup ((1 .. MaxSize) \X {NumFaces} \X {"othersize"})}

\* the first image decides whether the call resets the object; only then can
\* the pointer dangle and is fresh storage allocated
Resizes(c, files, type, prefix, ext) ==
  LET img == ReadFile(files, FileName(prefix, type, 0, ext))
  IN /\ textureTypeSanityCheck(c.flags_, type)
     /\ IsTex(c.textures_[type])
     /\ img.format # "none"
     /\ img.size[1] = img.size[2]
     /\ img.size[1] # c.imageSize_

LoadCall(type, src, importerOk) ==
  LET ext == IF src.prefix = "ext" THEN SaveExtension(type) ELSE src.ext
      disk == Disk(fs, type, src.T, src.bad, src.kind)
      resizes == importerOk /\ Resizes(cm, disk, type, src.prefix, ext)
  IN \E dangling \in IF resizes THEN DanglingOutcomes ELSE {"lost"} :
       \E r \in {loadTexture(cm, disk, type, src.prefix, ext, importerOk,
                            dangling)} :
          /\ cm' = r.c
          /\ glLog' = r.log
          /\ phase' = IF r.ret = "crash" THEN "crashed" ELSE PhaseAfter(r.c)
          /\ last' = [Call("loadTexture", type, src.T, r.ret)
                        EXCEPT !.extra = <<src.prefix, ext, importerOk,
                                           src.bad, src.kind>>]

LoadTexture ==
  /\ phase = "live"
  /\ last.op = "none"
  /\ cm.resets < MaxResets
  /\ \/ \E type \in TextureType, src \in LoadSources :
          LoadCall(type, src, TRUE)
     \/ \E type \in TextureType :
          LoadCall(type, CHOOSE src \in LoadSources : src.prefix = "p", FALSE)
  /\ UNCHANGED <<cam, fs>>
  /\ UNCHANGED <<mm, mmLast, meshVars>>

\* the call returns to its caller: the record of the call is dropped
Return ==
  /\ phase = "live"
  /\ last.op # "none"
  /\ last' = Call("none", "none", 0, "none")
  /\ glLog' = << >>
  /\ UNCHANGED <<phase, cm, cam, fs>>
  /\ UNCHANGED <<mm, mmLast, meshVars>>

\* the CubeMap side of the state, which no mediator call touches
cubeMapVars == <<phase, cm, cam, fs, glLog, last>>

BoolValue(b) == [kind |-> "bool", value |-> b]

\* the five dataset-scoped manager accessors by name
DatasetManagerAccessors ==
  {"getAssetAttributesManager", "getLightLayoutAttributesManager",
   "getObjectAttributesManager", "getSceneAttributesManager",
   "getStageAttributesManager"}

CallDatasetManagerAccessor(op, m) ==
  CASE op = "getAssetAttributesManager" -> getAssetAttributesManager(m)
    [] op = "getLightLayoutAttributesManager" -> getLightLayoutAttributesManager(m)
    [] op = "getObjectAttributesManager" -> getObjectAttributesManager(m)
    [] op = "getSceneAttributesManager" -> getSceneAttributesManager(m)
    [] op = "getStageAttributesManager" -> getStageAttributesManager(m)

ConstructMediator ==
  /\ ~mm.constructed
  /\ \E sceneDatasetConfigFile \in DatasetNames, loaded \in BOOLEAN :
       /\ mm' = MetadataMediatorCtor(sceneDatasetConfigFile, loaded)
       /\ mmLast' = MMCall("MetadataMediator", sceneDatasetConfigFile,
                           Returned(BoolValue(loaded), << >>))
  /\ UNCHANGED <<cubeMapVars, meshVars>>

CreateSceneDataset ==
  /\ mm.constructed
  /\ \E sceneDatasetName \in DatasetNames, overwrite, loaded \in BOOLEAN :
       \E r \in {createSceneDataset(mm, sceneDatasetName, overwrite, loaded)} :
          /\ mm' = r.m
          /\ mmLast' = MMCall("createSceneDataset", sceneDatasetName,
                              Returned(BoolValue(r.ret), << >>))
  /\ UNCHANGED <<cubeMapVars, meshVars>>

SetActiveSceneDatasetName ==
  /\ mm.constructed
  /\ \E sceneDatasetName \in DatasetNames, loaded \in BOOLEAN :
       \E r \in {setActiveSceneDatasetName(mm, sceneDatasetName, loaded)} :
          /\ mm' = r.m
          /\ mmLast' = MMCall("setActiveSceneDatasetName", sceneDatasetName,
                              Returned(BoolValue(r.ret), << >>))
  /\ UNCHANGED <<cubeMapVars, meshVars>>

RemoveSceneDataset ==
  /\ mm.constructed
  /\ \E sceneDatasetName \in DatasetNames :
       \E r \in {removeSceneDataset(mm, sceneDatasetName)} :
          /\ mm' = r.m
          /\ mmLast' = MMCall("removeSceneDataset", sceneDatasetName,
                              Returned(BoolValue(r.ret), << >>))
  /\ UNCHANGED <<cubeMapVars, meshVars>>

GetSceneAttributesByName ==
  /\ mm.constructed
  /\ getActiveDSAttribs(mm).ret # nullptr
  /\ \E sceneName \in SceneNames, hasSemantic \in BOOLEAN :
       /\ mm' = getSceneAttributesByName(mm, sceneName, hasSemantic)
       /\ mmLast' = MMCall("getSceneAttributesByName", sceneName,
                           Returned(BoolValue(hasSemantic), << >>))
  /\ UNCHANGED <<cubeMapVars, meshVars>>

GetDatasetManager ==
  /\ mm.constructed
  /\ \E op \in DatasetManagerAccessors :
       mmLast' = MMCall(op, EmptyString, CallDatasetManagerAccessor(op, mm))
  /\ UNCHANGED <<mm, cubeMapVars, meshVars>>

GetPhysicsAttributesManager ==
  /\ mm.constructed
  /\ mmLast' = MMCall("getPhysicsAttributesManager", EmptyString,
                      getPhysicsAttributesManager(mm))
  /\ UNCHANGED <<mm, cubeMapVars, meshVars>>

GetActiveNavmeshMap ==
  /\ mm.constructed
  /\ mmLast' = MMCall("getActiveNavmeshMap", EmptyString,
                      getActiveNavmeshMap(mm))
  /\ UNCHANGED <<mm, cubeMapVars, meshVars>>

GetActiveSemanticSceneDescriptorMap ==
  /\ mm.constructed
  /\ mmLast' = MMCall("getActiveSemanticSceneDescriptorMap", EmptyString,
                      getActiveSemanticSceneDescriptorMap(mm))
  /\ UNCHANGED <<mm, cubeMapVars, meshVars>>

GetNavmeshPathByHandle ==
  /\ mm.constructed
  /\ \E navMeshHandle \in Handles :
       mmLast' = MMCall("getNavmeshPathByHandle", navMeshHandle,
                        getNavmeshPathByHandle(mm, navMeshHandle))
  /\ UNCHANGED <<mm, cubeMapVars, meshVars>>

GetSemanticSceneDescriptorPathByHandle ==
  /\ mm.constructed
  /\ \E ssDescrHandle \in Handles :
       mmLast' = MMCall("getSemanticSceneDescriptorPathByHandle", ssDescrHandle,
                        getSemanticSceneDescriptorPathByHandle(mm,
                                                               ssDescrHandle))
  /\ UNCHANGED <<mm, cubeMapVars, meshVars>>

Next ==
  \/ Construct
  \/ Reset
  \/ GetTexture
  \/ RenderToTexture
  \/ SetViewport
  \/ Return

\* saving and loading the textures
NextPersist ==
  \/ Construct
  \/ GetTexture
  \/ SaveTexture
  \/ LoadTexture
  \/ Return

\* the render loop with a camera the caller moves between calls
NextCamera ==
  \/ Construct
  \/ RenderToTexture
  \/ SetTransformation
  \/ SetViewport
  \/ Return

\* the metadata mediator: datasets come and go, the accessors read
NextMediator ==
  \/ ConstructMediator
  \/ CreateSceneDataset
  \/ SetActiveSceneDatasetName
  \/ RemoveSceneDataset
  \/ GetSceneAttributesByName
  \/ GetDatasetManager
  \/ GetPhysicsAttributesManager
  \/ GetActiveNavmeshMap
  \/ GetActiveSemanticSceneDescriptorMap
  \/ GetNavmeshPathByHandle
  \/ GetSemanticSceneDescriptorPathByHandle

Spec == Init /\ [][Next]_vars

SpecPersist == Init /\ [][NextPersist]_vars

SpecCamera == Init /\ [][NextCamera]_vars

SpecMediator == Init /\ [][NextMediator]_vars

----------------------------------------------------------------------------
(* The operations of MeshMetaData *)

\* MeshMetaData meta;
DefaultConstructMeshMetaData ==
  /\ meta = NoMeshMetaData
  /\ meta' = MeshMetaDataDefault
  /\ metaLast' = MeshCall("MeshMetaData", << >>)
  /\ UNCHANGED <<mm, mmLast, cubeMapVars>>

\* MeshMetaData meta(meshStart, meshEnd, ...): two to six arguments
ConstructMeshMetaData ==
  /\ meta = NoMeshMetaData
  /\ \E n \in 2 .. 6 : \E given \in [1 .. n -> IndexValues] :
        LET a == DefaultArguments(given)
        IN /\ meta' = MeshMetaData(a[1], a[2], a[3], a[4], a[5], a[6])
           /\ metaLast' = MeshCall("MeshMetaData", given)
  /\ UNCHANGED <<mm, mmLast, cubeMapVars>>

SetMeshIndices ==
  /\ meta # NoMeshMetaData
  /\ \E meshStart \in IndexValues, meshEnd \in IndexValues :
        /\ meta' = setMeshIndices(meta, meshStart, meshEnd)
        /\ metaLast' = MeshCall("setMeshIndices", <<meshStart, meshEnd>>)
  /\ UNCHANGED <<mm, mmLast, cubeMapVars>>

SetTextureIndices ==
  /\ meta # NoMeshMetaData
  /\ \E textureStart \in IndexValues, textureEnd \in IndexValues :
        /\ meta' = setTextureIndices(meta, textureStart, textureEnd)
        /\ metaLast' = MeshCall("setTextureIndices", <<textureStart, textureEnd>>)
  /\ UNCHANGED <<mm, mmLast, cubeMapVars>>

SetMaterialIndices ==
  /\ meta # NoMeshMetaData
  /\ \E materialStart \in IndexValues, materialEnd \in IndexValues :
        /\ meta' = setMaterialIndices(meta, materialStart, materialEnd)
        /\ metaLast' = MeshCall("setMaterialIndices", <<materialStart, materialEnd>>)
  /\ UNCHANGED <<mm, mmLast, cubeMapVars>>

\* one MeshMetaData object: built either way, then written by its setters
NextMesh ==
  \/ DefaultConstructMeshMetaData
  \/ ConstructMeshMetaData
  \/ SetMeshIndices
  \/ SetTextureIndices
  \/ SetMaterialIndices

SpecMesh == Init /\ [][NextMesh]_vars

----------------------------------------------------------------------------
(* Reading the command log *)

\* the positions of the log that hold command `op` of face iteration `face`
At(log, op, face) ==
  {j \in 1 .. Len(log) : log[j].op = op /\ log[j].face = face}

\* the positions that hold command `op`, whatever the face
AtAny(log, op) == {j \in 1 .. Len(log) : log[j].op = op}

\* every position of S comes before every position of T
Before(S, T) == \A j \in S, k \in T : j < k

\* a renderToTexture call has returned normally
RenderReturned == last.op = "renderToTexture" /\ phase = "live"

----------------------------------------------------------------------------
(* The claims *)

\* C1: constructing a CubeMap with any imageSize <= 0 ends in the size
\* assertion failure, for every flag set, and yields no usable target.
\* (The statement as claimed; the constructor called with 0 refutes it.)
C1_NonPositiveSizeAsserts ==
  (last.op = "CubeMap" /\ last.size <= 0)
    => (phase = "aborted" /\ cm.fail = "reset: image size is illegal")

\* C2: in every state of a constructed CubeMap that a caller can observe,
\* whatever calls were made, imageSize_ > 0.  (The statement as claimed; the
\* constructor called with 0 refutes it.)
C2_ImageSizePositive ==
  phase = "live" => cm.imageSize_ > 0

\* C3: reset(s) with s equal to the current imageSize_ returns false and
\* changes nothing: the size, every texture object, the framebuffer, the
\* renderbuffer and all attachments are what they were, nothing is created
\* or destroyed.
C3_ResetSameSizeChangesNothing ==
  [][(phase = "live" /\ last'.op = "reset" /\ last'.size = cm.imageSize_)
       => (last'.ret = "false" /\ cm' = cm /\ phase' = "live")]_vars

C3_Witness ==
  /\ phase = "live"
  /\ last.op = "reset"
  /\ last.ret = "false"
  /\ last.size = cm.imageSize_
  /\ cm.imageSize_ > 0
  /\ IsTex(cm.textures_["Color"])
  /\ IsTex(cm.textures_["Depth"])

\* the ids of all GL objects the object has created so far
IdsUsed(c) ==
  c.destroyed
    \cup UNION {OwnedIds(c.textures_[t]) : t \in TextureType}
    \cup {c.frameBuffer_.id, c.optionalDepthBuffer_.id}

\* what a size-changing reset(s) leaves behind, given the object before it
ResetPost(old, new, s) ==
  /\ new.imageSize_ = s
  /\ new.flags_ = old.flags_
  /\ new.fail = "none"
  /\ \A t \in TextureType :
       FlagOf(t) \in old.flags_ =>
         /\ IsTex(new.textures_[t])
         /\ new.textures_[t].size = <<s, s>>
         /\ new.textures_[t].id \notin IdsUsed(old)
         /\ OwnedIds(old.textures_[t]) \subseteq new.destroyed
  /\ IsTex(new.textures_["Color"]) /\ IsTex(new.textures_["Depth"])
       => new.textures_["Color"].id # new.textures_["Depth"].id
  /\ new.frameBuffer_.id \notin IdsUsed(old)
  /\ new.frameBuffer_.id # 0
  /\ new.frameBuffer_.viewport = <<s, s>>
  /\ "ColorTexture" \in old.flags_ =>
       \A i \in Faces :
         new.frameBuffer_.color[colorAttachment(i)] =
           [kind |-> "tex", tex |-> new.textures_["Color"].id, face |-> i]
  /\ (new.frameBuffer_.depth.kind = "rb") <=> ~("DepthTexture" \in old.flags_)
  /\ new.frameBuffer_.depth.kind = "rb" =>
       /\ new.frameBuffer_.depth.tex = new.optionalDepthBuffer_.id
       /\ new.optionalDepthBuffer_.size = <<s, s>>
  /\ "DepthTexture" \in old.flags_ => new.frameBuffer_.depth = NoAttachment

\* C4: reset(s) with s > 0 and s different from imageSize_ returns true;
\* afterwards imageSize_ = s, every enabled texture type has a newly created
\* texture of edge s, the framebuffer is a new one with viewport (s, s), face
\* i of the color texture is on color attachment i, the renderbuffer is the
\* depth attachment iff DepthTexture is not enabled, and the depth texture is
\* not attached.
C4_ResetNewSizeRecreates ==
  [][(phase = "live" /\ last'.op = "reset" /\ last'.size > 0
        /\ last'.size # cm.imageSize_)
       => (last'.ret = "true" /\ phase' = "live"
             /\ ResetPost(cm, cm', last'.size))]_vars

C4_Witness ==
  /\ phase = "live"
  /\ last.op = "reset"
  /\ last.ret = "true"
  /\ cm.resets >= 2
  /\ cm.flags_ = Flag
  /\ cm.destroyed # {}

\* C5: getTexture, saveTexture and loadTexture called with a texture type
\* whose flag was not set at construction end in the precondition assertion
\* before any other effect: no map entry is created, nothing is read from a
\* texture or a file, nothing is written, the object is as before.
C5_DisabledTypeAssertsFirst ==
  [][(phase = "live"
        /\ last'.op \in {"getTexture", "saveTexture", "loadTexture"}
        /\ FlagOf(last'.type) \notin cm.flags_)
       => (/\ phase' = "aborted"
           /\ cm'.fail \in {"getTexture: texture type not enabled",
                            "saveTexture: texture type not enabled",
                            "loadTexture: texture type not enabled"}
           /\ [cm' EXCEPT !.fail = "none"] = cm
           /\ fs' = fs
           /\ glLog' = << >>)]_vars

C5_Witness ==
  /\ phase = "aborted"
  /\ last.op = "loadTexture"
  /\ cm.fail = "loadTexture: texture type not enabled"
  /\ cm.imageSize_ > 0
  /\ last.extra[1] = "ext"
  /\ last.extra[3] = TRUE

\* C6: renderToTexture called with a camera that is not in the scene graph
\* given, or whose viewport is not (imageSize_, imageSize_), ends in an
\* assertion before any effect: the camera's snapshot and transformation are
\* untouched, the framebuffer is not bound, no attachment changes, nothing is
\* cleared or drawn.
C6_BadCameraAssertsFirst ==
  [][(phase = "live" /\ last'.op = "renderToTexture"
        /\ (~isInSceneGraph(cam, last'.type)
              \/ cam.viewport # <<cm.imageSize_, cm.imageSize_>>))
       => (/\ phase' = "aborted"
           /\ cm'.fail \in {"renderToTexture: camera not in scene graph",
                            "renderToTexture: viewport is not correct"}
           /\ cam' = cam
           /\ [cm' EXCEPT !.fail = "none"] = cm
           /\ glLog' = << >>)]_vars

C6_Witness ==
  /\ phase = "aborted"
  /\ last.op = "renderToTexture"
  /\ cm.fail = "renderToTexture: viewport is not correct"
  /\ cm.imageSize_ > 0
  /\ cam.transformation # 0

\* the commands of one face iteration, by their place in it
AttachOps == {"mapForDraw", "attachDepth"}
ClearOps == {"clearDepth", "clearColor", "checkStatus"}

\* C7: one renderToTexture call processes the faces in the order 0..5, each
\* once; every command of face i precedes every command of face i+1; within
\* a face the clears and the completeness check come after the attachment
\* changes and before the first draw; every drawable group is drawn once per
\* face.
C7_FacesInOrder ==
  RenderReturned =>
    /\ \A i \in Faces :
         /\ Cardinality(At(glLog, "switchToFace", i)) = 1
         /\ Cardinality(At(glLog, "mapForDraw", i)) = 1
         /\ Cardinality(At(glLog, "clearDepth", i)) = 1
         /\ Cardinality(At(glLog, "clearColor", i)) = 1
         /\ Cardinality(At(glLog, "checkStatus", i)) = 1
         /\ Cardinality(At(glLog, "attachDepth", i)) =
              (IF "DepthTexture" \in cm.flags_ THEN 1 ELSE 0)
         /\ \A g \in 1 .. last.size :
              Cardinality({j \in At(glLog, "draw", i) : glLog[j].arg = g}) = 1
         /\ Cardinality(At(glLog, "draw", i)) = last.size
         /\ Before(At(glLog, "switchToFace", i),
                   UNION {At(glLog, op, i) : op \in AttachOps \cup ClearOps})
         /\ Before(UNION {At(glLog, op, i) : op \in AttachOps},
                   UNION {At(glLog, op, i) : op \in ClearOps})
         /\ Before(UNION {At(glLog, op, i) : op \in ClearOps},
                   At(glLog, "draw", i))
    /\ \A j \in 1 .. Len(glLog) : glLog[j].face \in Faces \cup {0 - 1}
    /\ \A j, k \in 1 .. Len(glLog) :
         (j < k /\ glLog[j].face \in Faces /\ glLog[k].face \in Faces)
           => glLog[j].face <= glLog[k].face

C7_Witness ==
  /\ RenderReturned
  /\ last.size = MaxGroups
  /\ "DepthTexture" \in cm.flags_
  /\ "ColorTexture" \in cm.flags_
  /\ cm.resets >= 2

\* C8: renderToTexture takes the camera's snapshot once, before the first
\* face, and leaves the camera's transformation as it was at the call; so a
\* call made with the camera as the previous call left it takes the same
\* snapshot again.
C8_CameraRestored ==
  [][(phase = "live" /\ last'.op = "renderToTexture" /\ phase' = "live")
       => (/\ Cardinality(AtAny(glLog', "updateOriginalViewingMatrix")) = 1
           /\ Before(AtAny(glLog', "updateOriginalViewingMatrix"),
                     AtAny(glLog', "switchToFace"))
           /\ cam'.originalViewingMatrix
                = updateOriginalViewingMatrix(cam).originalViewingMatrix
           /\ cam'.transformation = cam.transformation
           /\ (cam.originalViewingMatrix
                 = updateOriginalViewingMatrix(cam).originalViewingMatrix
               => cam'.originalViewingMatrix = cam.originalViewingMatrix)
           /\ updateOriginalViewingMatrix(cam').originalViewingMatrix
                = cam'.originalViewingMatrix)]_vars

C8_Witness ==
  /\ RenderReturned
  /\ cam.transformation # 0
  /\ cam.originalViewingMatrix = Inverted(cam.transformation)
  /\ Cardinality(AtAny(glLog, "switchToFace")) = NumFaces

C10_RenderNeverGeneratesMipmap ==
  RenderReturned => AtAny(glLog, "generateMipmap") = {}

----------------------------------------------------------------------------
(* Persistence: file names, round trip, failures *)

\* a saveTexture / loadTexture call has returned normally
SaveReturned == last.op = "saveTexture" /\ phase = "live"
LoadReturned == last.op = "loadTexture" /\ phase = "live"

\* the names the log's commands `op` carry
NamesOf(log, op) == {log[j].name : j \in AtAny(log, op)}

\* the file name the claim expects for face i: prefix.typeTag.faceTag.ext
ExpectedName(prefix, type, i, ext) ==
  <<prefix,
    IF type = "Color" THEN "rgba" ELSE "depth",
    <<"+X", "-X", "+Y", "-Y", "+Z", "-Z">>[i + 1],
    ext>>

SavedSet(files, prefix, type) ==
  /\ \A i \in Faces :
        ExpectedName(prefix, type, i, SaveExtension(type)) \in DOMAIN files
  /\ \A n \in DOMAIN files : n[1] = prefix /\ n[2] = getTextureTypeFilenameString(type)

\* the single channel a stored pixel block stands for: the block itself for
\* a color file, the one value its three equal channels repeat for a depth file
OriginalChannel(type, image) ==
  IF type = "Color" THEN [ok |-> image.format = "RGBA8Unorm", px |-> image.px]
  ELSE [ok |-> /\ image.format = "RGB32F"
               /\ image.px[1] = image.px[2]
               /\ image.px[2] = image.px[3],
        px |-> image.px[1]]

C13_SaveReturnValue ==
  [][(phase = "live" /\ last'.op = "saveTexture" /\ phase' # "aborted")
       => LET exports == AtAny(glLog', "exportToFile")
              good == {j \in exports : glLog'[j].arg = 1}
              failed == exports \ good
              converterOk == last'.extra[2]
          IN /\ (last'.ret = "true")
                  <=> (/\ converterOk
                       /\ \A i \in Faces : \E j \in good : glLog'[j].face = i)
             /\ last'.ret = "true" => phase' = "live"
             /\ ~converterOk =>
                  /\ last'.ret = "false"
                  /\ phase' = "live"
                  /\ fs' = fs
                  /\ exports = {}
                  /\ cm' = cm
             /\ \A j \in failed :
                   LET k == glLog'[j].face
                   IN /\ last'.ret = "false"
                      /\ phase' = "live"
                      /\ j = Len(glLog')
                      /\ {glLog'[g].face : g \in good} = 0 .. (k - 1)
                      /\ DOMAIN fs'
                           = DOMAIN fs \cup {glLog'[g].name : g \in good}
                      /\ \A i \in k .. (NumFaces - 1) :
                            ExpectedName(last'.extra[1], last'.type, i,
                                         SaveExtension(last'.type))
                              \notin DOMAIN fs'
                      /\ \A i \in (k + 1) .. (NumFaces - 1) :
                            /\ At(glLog', "image", i) = {}
                            /\ At(glLog', "exportToFile", i) = {}
             /\ Cardinality(AtAny(glLog', "logInfo")) = Cardinality(good)
             /\ \A j \in good :
                   /\ j < Len(glLog')
                   /\ glLog'[j + 1].op = "logInfo"
                   /\ glLog'[j + 1].face = glLog'[j].face
                   /\ glLog'[j].name \in DOMAIN fs']_vars

\* the export of face 3 failed: three files are on disk, the call said false
C13_Witness ==
  /\ SaveReturned
  /\ last.ret = "false"
  /\ last.extra[2]
  /\ last.size = 3
  /\ Cardinality(DOMAIN fs) = 3
  /\ Cardinality(AtAny(glLog, "logInfo")) = 3

\* the object with the record of a failed assertion taken off
WithoutFail(c) == [c EXCEPT !.fail = "none"]

\* C14: when the first image loadTexture reads is a square of edge T other
\* than imageSize_, the object is reset to T (every enabled texture and the
\* framebuffer recreated at T) before the first upload is issued; when T is
\* imageSize_ nothing is recreated.
C14_LoadResizesFirst ==
  [][(/\ phase = "live"
      /\ last'.op = "loadTexture"
      /\ Len(glLog') > 0
      /\ glLog'[1].op = "openFile"
      /\ glLog'[1].size[1] = glLog'[1].size[2]
      /\ glLog'[1].size[1] > 0)
       => LET T == glLog'[1].size[1]
              resets == AtAny(glLog', "reset")
          IN /\ Cardinality(resets) = 1
             /\ Before(resets, AtAny(glLog', "setSubImage"))
             /\ Before(resets, AtAny(glLog', "generateMipmap"))
             /\ \A r \in resets : glLog'[r].size = <<T, T>>
             /\ cm'.imageSize_ = T
             /\ IF T # cm.imageSize_
                THEN /\ \A r \in resets : glLog'[r].arg = 1
                     /\ ResetPost(cm, WithoutFail(cm'), T)
                     /\ cm'.resets = cm.resets + 1
                ELSE /\ \A r \in resets : glLog'[r].arg = 0
                     /\ cm'.next = cm.next
                     /\ cm'.destroyed = cm.destroyed
                     /\ cm'.resets = cm.resets
                     /\ cm'.frameBuffer_ = cm.frameBuffer_
                     /\ cm'.optionalDepthBuffer_ = cm.optionalDepthBuffer_
                     /\ \A t \in TextureType :
                           /\ IsTex(cm'.textures_[t]) <=> IsTex(cm.textures_[t])
                           /\ IsTex(cm.textures_[t]) =>
                                /\ cm'.textures_[t].id = cm.textures_[t].id
                                /\ cm'.textures_[t].size = cm.textures_[t].size
                                /\ cm'.textures_[t].levels
                                     = cm.textures_[t].levels]_vars

\* a load of six images of another size: the object was reset, then uploads
\* were issued
C14_Witness ==
  /\ last.op = "loadTexture"
  /\ phase = "live"
  /\ cm.resets = 2
  /\ \E r \in AtAny(glLog, "reset") :
        /\ glLog[r].arg = 1
        /\ cm.imageSize_ = glLog[r].size[1]
  /\ Cardinality(AtAny(glLog, "openFile")) = NumFaces
  /\ Cardinality(AtAny(glLog, "setSubImage")) = NumFaces

\* the first face of an external file set that loadTexture rejects, and the
\* edge of the faces before it: a face 0 of another (square) size is the
\* reference the next face is measured against
FirstBadFace(bad, kind) == IF bad = 0 /\ kind = "othersize" THEN 1 ELSE bad
EdgeBeforeBad(T, bad, kind) == IF bad = 0 /\ kind = "othersize" THEN T + 1 ELSE T

\* a loadTexture step on an enabled type that reads external files of which
\* one face is not square or not of face 0's size
LoadsBadFace ==
  /\ phase = "live"
  /\ last'.op = "loadTexture"
  /\ last'.extra[1] = "ext"
  /\ last'.extra[3]
  /\ last'.extra[4] \in Faces
  /\ textureTypeSanityCheck(cm.flags_, last'.type)
  /\ IsTex(cm.textures_[last'.type])

\* what C15 says of such a step
BadFacePost ==
  LET type == last'.type
      k == FirstBadFace(last'.extra[4], last'.extra[5])
      T == EdgeBeforeBad(last'.size, last'.extra[4], last'.extra[5])
  IN /\ phase' = "aborted"
     /\ cm'.fail \in {"loadTexture: image must be a square",
                      "loadTexture: images must have the same size"}
     /\ \A i \in k .. (NumFaces - 1) : At(glLog', "setSubImage", i) = {}
     /\ \A i \in 0 .. (k - 1) :
           /\ IsTex(cm'.textures_[type])
           /\ cm'.textures_[type].face[i]
                = UploadData(type, ExternalImage(type, last'.size,
                                                 last'.extra[4],
                                                 last'.extra[5], i))
     /\ k > 0 => cm'.imageSize_ = T
     /\ k = 0 => /\ AtAny(glLog', "reset") = {}
                 /\ cm'.imageSize_ = cm.imageSize_
                 /\ cm'.textures_ = cm.textures_
                 /\ cm'.frameBuffer_ = cm.frameBuffer_

\* C15: in loadTexture, if face k is the first face that is not square or
\* not of face 0's size, the call ends in the assertion before any upload of
\* face k; faces 0..k-1 keep the data uploaded to them, faces k..5 are not
\* uploaded, the resize face 0 triggered stays, and a non-square face 0 is
\* rejected before any resize.  (The statement as claimed; a load whose face 0
\* resizes the object refutes it, the uploads going through the pointer taken
\* before the reset.)
C15_BadFaceRejectedNoRollback ==
  [][LoadsBadFace => BadFacePost]_vars

\* the same statement for the loads whose face 0 has the object's size
C15_HoldsWithoutResize ==
  [][(LoadsBadFace
        /\ EdgeBeforeBad(last'.size, last'.extra[4], last'.extra[5])
             = cm.imageSize_)
       => BadFacePost]_vars

\* C16: a codec that cannot be instantiated is a recoverable error for both
\* persistence operations: saveTexture without a converter and loadTexture
\* without an importer each report failure to the caller, no assertion fires
\* and the target is unchanged.  (The statement as claimed; loadTexture
\* without an importer refutes it.)
C16_CodecFailureRecoverable ==
  [][/\ (/\ phase = "live"
         /\ last'.op = "saveTexture"
         /\ textureTypeSanityCheck(cm.flags_, last'.type)
         /\ IsTex(cm.textures_[last'.type])
         /\ ~last'.extra[2])
        => (phase' = "live" /\ last'.ret = "false" /\ cm' = cm /\ fs' = fs)
     /\ (/\ phase = "live"
         /\ last'.op = "loadTexture"
         /\ textureTypeSanityCheck(cm.flags_, last'.type)
         /\ IsTex(cm.textures_[last'.type])
         /\ ~last'.extra[3])
        => (phase' = "live" /\ last'.ret = "false" /\ cm' = cm /\ fs' = fs)]_vars

\* the half of the statement that is about saveTexture
C16_SaveHalfHolds ==
  [][(/\ phase = "live"
      /\ last'.op = "saveTexture"
      /\ textureTypeSanityCheck(cm.flags_, last'.type)
      /\ IsTex(cm.textures_[last'.type])
      /\ ~last'.extra[2])
       => (phase' = "live" /\ last'.ret = "false" /\ cm' = cm /\ fs' = fs)]_vars

----------------------------------------------------------------------------
(* Mip levels *)

RECURSIVE TwoTo(_)
TwoTo(n) == IF n <= 0 THEN 1 ELSE 2 * TwoTo(n - 1)

\* L = floor(log2(S)) + 1, said without the logarithm: 2^(L-1) <= S < 2^L
IsFloorLog2PlusOne(L, S) == L >= 1 /\ TwoTo(L - 1) <= S /\ S < TwoTo(L)

\* the last call was a size-changing reset (the constructor's included)
SizeChanged ==
  /\ phase = "live"
  /\ last.size > 0
  /\ \/ last.op = "reset" /\ last.ret = "true"
     \/ last.op = "CubeMap"

\* C17: after a size-changing reset(S), S > 0, the color texture (if enabled)
\* has 1 mip level when BuildMipmap is unset and floor(log2(S)) + 1 levels
\* when it is set, also for S not a power of two; the depth texture (if
\* enabled) has 1 level whatever BuildMipmap is.
C17_MipLevels ==
  SizeChanged =>
    /\ "ColorTexture" \in cm.flags_ =>
         /\ IsTex(cm.textures_["Color"])
         /\ cm.textures_["Color"].size = <<last.size, last.size>>
         /\ IF "BuildMipmap" \in cm.flags_
            THEN IsFloorLog2PlusOne(cm.textures_["Color"].levels, last.size)
            ELSE cm.textures_["Color"].levels = 1
    /\ "DepthTexture" \in cm.flags_ =>
         /\ IsTex(cm.textures_["Depth"])
         /\ cm.textures_["Depth"].levels = 1

\* a reset to edge 3, not a power of two, with every flag set: 2 color levels
C17_Witness ==
  /\ SizeChanged
  /\ last.op = "reset"
  /\ last.size = 3
  /\ cm.flags_ = Flag
  /\ cm.textures_["Color"].levels = 2
  /\ cm.textures_["Depth"].levels = 1

----------------------------------------------------------------------------
(* The depth attachment during the face loop *)

\* C20: at every draw of face i in renderToTexture the framebuffer's depth
\* attachment is face i of the depth texture when DepthTexture is enabled
\* (attached anew in every iteration, before the clear), and the fallback
\* renderbuffer when it is not; the renderbuffer is attached by reset only
\* and is never attached again or replaced during the face loop.
C20_DepthAttachmentPerFace ==
  [][/\ (phase = "live" /\ last'.op = "renderToTexture" /\ phase' = "live")
        => IF "DepthTexture" \in cm.flags_
           THEN /\ \A j \in AtAny(glLog', "draw") \cup AtAny(glLog', "clearDepth") :
                      glLog'[j].depth
                        = [kind |-> "tex", tex |-> cm.textures_["Depth"].id,
                           face |-> glLog'[j].face]
                /\ \A i \in Faces :
                      /\ Cardinality(At(glLog', "attachDepth", i)) = 1
                      /\ \A a \in At(glLog', "attachDepth", i) :
                            glLog'[a].depth
                              = [kind |-> "tex",
                                 tex |-> cm.textures_["Depth"].id, face |-> i]
                      /\ Before(At(glLog', "attachDepth", i),
                                At(glLog', "clearDepth", i)
                                  \cup At(glLog', "draw", i))
                      /\ \A h \in 0 .. (i - 1) :
                            Before(At(glLog', "draw", h),
                                   At(glLog', "attachDepth", i))
           ELSE /\ cm.frameBuffer_.depth
                     = RenderbufferAttachment(cm.optionalDepthBuffer_)
                /\ \A j \in AtAny(glLog', "draw") \cup AtAny(glLog', "clearDepth") :
                      glLog'[j].depth = cm.frameBuffer_.depth
                /\ AtAny(glLog', "attachDepth") = {}
                /\ cm'.frameBuffer_.depth = cm.frameBuffer_.depth
                /\ cm'.optionalDepthBuffer_ = cm.optionalDepthBuffer_
     /\ (/\ cm'.frameBuffer_.depth # cm.frameBuffer_.depth
         /\ cm'.frameBuffer_.depth.kind = "rb")
        => last'.op \in {"reset", "CubeMap"}]_vars

\* a render with a depth texture whose last draw had face 5 of it attached
C20_Witness ==
  /\ RenderReturned
  /\ "DepthTexture" \in cm.flags_
  /\ last.size = MaxGroups
  /\ \E j \in At(glLog, "draw", 5) :
        glLog[j].depth = [kind |-> "tex", tex |-> cm.textures_["Depth"].id,
                          face |-> 5]
  /\ cm.frameBuffer_.depth.face = 5

----------------------------------------------------------------------------
(* The metadata mediator's accessors *)

\* the active name is the name of a registered dataset
ActiveIsRegistered(m) ==
  m.activeSceneDataset_ \in DOMAIN m.sceneDatasetAttributesManager_

\* the attributes a dataset-scoped accessor's manager manages
ManagedBy(op) ==
  CASE op = "getAssetAttributesManager" -> "AssetAttributes"
    [] op = "getLightLayoutAttributesManager" -> "LightLayoutAttributes"
    [] op = "getObjectAttributesManager" -> "ObjectAttributes"
    [] op = "getSceneAttributesManager" -> "SceneAttributes"
    [] op = "getStageAttributesManager" -> "StageAttributes"

\* a step that is a call of accessor `op`
AccessorStep(op) == mm.constructed /\ mmLast'.op = op /\ mmLast' # mmLast

\* C18: each dataset-scoped manager accessor returns nullptr when
\* activeSceneDataset_ names no registered dataset and otherwise the manager
\* of exactly the dataset of that name; getActiveNavmeshMap and
\* getActiveSemanticSceneDescriptorMap return an empty map in the first case
\* (the active dataset's map otherwise); getPhysicsAttributesManager does not
\* depend on the active dataset; no accessor changes the mediator.
C18_ManagerAccessors ==
  [][/\ \A op \in DatasetManagerAccessors :
          AccessorStep(op) =>
            /\ mm' = mm
            /\ IF ActiveIsRegistered(mm)
               THEN mmLast'.ret = [kind |-> "manager",
                                   owner |-> mm.activeSceneDataset_,
                                   what |-> ManagedBy(op)]
               ELSE mmLast'.ret = nullptr
     /\ AccessorStep("getActiveNavmeshMap") =>
          /\ mm' = mm
          /\ mmLast'.ret.kind = "map"
          /\ IF ActiveIsRegistered(mm)
             THEN mmLast'.ret.map
                    = mm.sceneDatasetAttributesManager_[
                        mm.activeSceneDataset_].navmeshMap
             ELSE DOMAIN mmLast'.ret.map = {}
     /\ AccessorStep("getActiveSemanticSceneDescriptorMap") =>
          /\ mm' = mm
          /\ mmLast'.ret.kind = "map"
          /\ IF ActiveIsRegistered(mm)
             THEN mmLast'.ret.map
                    = mm.sceneDatasetAttributesManager_[
                        mm.activeSceneDataset_].semanticSceneDescrMap
             ELSE DOMAIN mmLast'.ret.map = {}
     /\ AccessorStep("getPhysicsAttributesManager") =>
          /\ mm' = mm
          /\ mmLast'.ret = [kind |-> "manager", owner |-> EmptyString,
                            what |-> "PhysicsAttributes"]]_vars

\* an accessor returned nullptr: the active name is registered nowhere while
\* another dataset is
C18_Witness ==
  /\ mmLast.op \in DatasetManagerAccessors
  /\ mmLast.ret = nullptr
  /\ ~ActiveIsRegistered(mm)
  /\ DOMAIN mm.sceneDatasetAttributesManager_ # {}

\* an accessor returned the manager of the active dataset, not the only one
C18_WitnessActive ==
  /\ mmLast.op = "getStageAttributesManager"
  /\ mmLast.ret = Manager(<<"ds">>, "StageAttributes")
  /\ DOMAIN mm.sceneDatasetAttributesManager_ = DatasetNames

\* C19: getNavmeshPathByHandle(h) and
\* getSemanticSceneDescriptorPathByHandle(h) return the empty string, with no
\* fatal error and no change of state, when there is no active dataset or h
\* is not a key of the active dataset's map of that kind; otherwise exactly
\* the path mapped to h: the key must match exactly, a key that contains h
\* does not count.
C19_PathByHandle ==
  [][/\ AccessorStep("getNavmeshPathByHandle") =>
          /\ mm' = mm
          /\ mmLast'.ret.kind = "path"
          /\ LET h == mmLast'.arg
             IN IF ActiveIsRegistered(mm)
                   /\ h \in DOMAIN mm.sceneDatasetAttributesManager_[
                                     mm.activeSceneDataset_].navmeshMap
                THEN mmLast'.ret.path
                       = mm.sceneDatasetAttributesManager_[
                           mm.activeSceneDataset_].navmeshMap[h]
                ELSE mmLast'.ret.path = << >> /\ mmLast'.log # << >>
     /\ AccessorStep("getSemanticSceneDescriptorPathByHandle") =>
          /\ mm' = mm
          /\ mmLast'.ret.kind = "path"
          /\ LET h == mmLast'.arg
             IN IF ActiveIsRegistered(mm)
                   /\ h \in DOMAIN mm.sceneDatasetAttributesManager_[
                                     mm.activeSceneDataset_].semanticSceneDescrMap
                THEN mmLast'.ret.path
                       = mm.sceneDatasetAttributesManager_[
                           mm.activeSceneDataset_].semanticSceneDescrMap[h]
                ELSE mmLast'.ret.path = << >> /\ mmLast'.log # << >>]_vars

\* the handle asked for is part of a registered key and is no key itself:
\* the lookup came back empty
C19_Witness ==
  /\ mmLast.op = "getNavmeshPathByHandle"
  /\ mmLast.arg = <<"a">>
  /\ ActiveIsRegistered(mm)
  /\ <<"a", "b">> \in DOMAIN mm.sceneDatasetAttributesManager_[
                              mm.activeSceneDataset_].navmeshMap
  /\ mmLast.ret = PathValue(<< >>)

\* a lookup that found its key
C19_WitnessFound ==
  /\ mmLast.op = "getSemanticSceneDescriptorPathByHandle"
  /\ mmLast.arg = <<"b">>
  /\ mmLast.ret = PathValue(<<"semantic", "ds", "b">>)

----------------------------------------------------------------------------
(* The color attachment during the face loop *)

\* what is bound to color attachment i of a target: face i of its color
\* texture, or nothing when it has none
ColorFace(c, i) ==
  IF "ColorTexture" \in c.flags_
  THEN [kind |-> "tex", tex |-> c.textures_["Color"].id, face |-> i]
  ELSE NoAttachment

----------------------------------------------------------------------------
(* loadTexture: where the uploads and the mipmap go *)

\* C22: after loadTexture has uploaded six faces, generateMipmap is issued
\* iff BuildMipmap and ColorTexture are both set, and on the color texture
\* only: no mipmap is ever generated on the depth texture.  (The statement as
\* claimed; loadTexture(Depth, ...) on a target with all three flags refutes
\* it.)
C22_LoadMipmapColorOnly ==
  (LoadReturned /\ Cardinality(AtAny(glLog, "setSubImage")) = NumFaces)
    => /\ (AtAny(glLog, "generateMipmap") # {})
            <=> ("BuildMipmap" \in cm.flags_ /\ "ColorTexture" \in cm.flags_)
       /\ Cardinality(AtAny(glLog, "generateMipmap")) <= 1
       /\ Before(AtAny(glLog, "setSubImage"), AtAny(glLog, "generateMipmap"))
       /\ \A j \in AtAny(glLog, "generateMipmap") :
             IsTex(cm.textures_["Depth"])
               => glLog[j].color.tex # cm.textures_["Depth"].id
       /\ IsTex(cm.textures_["Depth"]) => ~cm.textures_["Depth"].mipmapped

\* the part of the statement that is about when the mipmap is generated
C22_WhenHolds ==
  (LoadReturned /\ Cardinality(AtAny(glLog, "setSubImage")) = NumFaces)
    => /\ (AtAny(glLog, "generateMipmap") # {})
            <=> ("BuildMipmap" \in cm.flags_ /\ "ColorTexture" \in cm.flags_)
       /\ Cardinality(AtAny(glLog, "generateMipmap")) <= 1
       /\ Before(AtAny(glLog, "setSubImage"), AtAny(glLog, "generateMipmap"))

\* C23: every upload, and the final generateMipmap, of loadTexture(type, ...)
\* goes to the texture the target owns for that type at that moment, the one
\* getTexture(type) returns after the call, also when face 0 resets the
\* object: nothing goes to a texture already destroyed.  (The statement as
\* claimed; a load whose first image has another size refutes it.)
C23_UploadsReachOwnedTexture ==
  (last.op = "loadTexture" /\ phase # "aborted")
    => /\ phase = "live"
       /\ \A j \in AtAny(glLog, "setSubImage") \cup AtAny(glLog, "generateMipmap") :
             /\ glLog[j].color.kind = "tex"
             /\ glLog[j].color.tex \notin cm.destroyed
             /\ getTexture(cm, last.type).ret = "texture"
             /\ glLog[j].color.tex = cm.textures_[last.type].id

\* the same statement for the loads that do not reset the object
C23_HoldsWithoutResize ==
  (/\ last.op = "loadTexture"
   /\ phase # "aborted"
   /\ \A r \in AtAny(glLog, "reset") : glLog[r].arg = 0)
    => /\ phase = "live"
       /\ \A j \in AtAny(glLog, "setSubImage") \cup AtAny(glLog, "generateMipmap") :
             /\ glLog[j].color.kind = "tex"
             /\ glLog[j].color.tex \notin cm.destroyed
             /\ glLog[j].color.tex = cm.textures_[last.type].id


----------------------------------------------------------------------------
(* The object invariant of a constructed CubeMap *)

\* the flags the constructor call was given: the argument of the last
\* CubeMap(...) call is not kept by the object, so the statement is made on
\* steps: no step of a live object changes flags_
FlagsKept == [][(phase = "live" /\ phase' = "live") => cm'.flags_ = cm.flags_]_vars

\* textures_ holds a texture of edge imageSize_ for exactly the enabled types
TexturesMatchFlags(c) ==
  \A t \in TextureType :
     IF textureTypeSanityCheck(c.flags_, t)
     THEN /\ IsTex(c.textures_[t])
          /\ c.textures_[t].size = <<c.imageSize_, c.imageSize_>>
     ELSE ~IsTex(c.textures_[t])

\* C24: in every state of a constructed CubeMap in which no assertion has
\* fired, flags_ is the set given at construction and textures_ holds a non-null texture of edge imageSize_ for exactly
\* the enabled types, so getTexture(t) on an enabled type returns an existing
\* texture.  (The statement as claimed; the object built with imageSize 0
\* refutes it.)
C24_ObjectInvariant ==
  /\ FlagsKept
  /\ []((phase = "live" /\ cm.fail = "none")
          => /\ TexturesMatchFlags(cm)
             /\ \A t \in TextureType :
                   textureTypeSanityCheck(cm.flags_, t)
                     => getTexture(cm, t).ret = "texture")

\* the same statement for the objects whose edge is positive
C24_HoldsForPositiveSize ==
  (phase = "live" /\ cm.fail = "none" /\ cm.imageSize_ > 0)
    => /\ TexturesMatchFlags(cm)
       /\ \A t \in TextureType :
             textureTypeSanityCheck(cm.flags_, t)
               => getTexture(cm, t).ret = "texture"


----------------------------------------------------------------------------
(* MeshMetaData: construction and the three setters *)

\* the pair (ID_UNDEFINED, ID_UNDEFINED)
UndefinedPair == <<ID_UNDEFINED, ID_UNDEFINED>>

\* a root node with its three ids undefined and no children
UndefinedRoot(node) ==
  /\ node.meshIDLocal = ID_UNDEFINED
  /\ node.materialIDLocal = ID_UNDEFINED
  /\ node.componentID = ID_UNDEFINED
  /\ Len(node.children) = 0

\* this step is the call `op`
MeshStep(op) == metaLast'.op = op /\ <<meta, metaLast>> # <<meta', metaLast'>>

\* C25: a default-constructed MeshMetaData has its three index pairs equal to
\* (ID_UNDEFINED, ID_UNDEFINED) and a root whose three ids are ID_UNDEFINED and
\* which has no children; the constructor given only (meshStart, meshEnd) sets
\* meshIndex to that pair and leaves the other two undefined; each of
\* setMeshIndices, setTextureIndices and setMaterialIndices writes its two
\* arguments to its own pair and leaves the other two pairs and the root as
\* they were, whatever calls came before.
C25_MeshMetaDataIndices ==
  [][/\ (MeshStep("MeshMetaData") /\ Len(metaLast'.args) = 0)
          => /\ meta'.meshIndex = UndefinedPair
             /\ meta'.textureIndex = UndefinedPair
             /\ meta'.materialIndex = UndefinedPair
             /\ UndefinedRoot(meta'.root)
     /\ (MeshStep("MeshMetaData") /\ Len(metaLast'.args) = 2)
          => /\ meta'.meshIndex = metaLast'.args
             /\ meta'.textureIndex = UndefinedPair
             /\ meta'.materialIndex = UndefinedPair
             /\ UndefinedRoot(meta'.root)
     /\ MeshStep("setMeshIndices")
          => /\ meta'.meshIndex = metaLast'.args
             /\ meta'.textureIndex = meta.textureIndex
             /\ meta'.materialIndex = meta.materialIndex
             /\ meta'.root = meta.root
     /\ MeshStep("setTextureIndices")
          => /\ meta'.textureIndex = metaLast'.args
             /\ meta'.meshIndex = meta.meshIndex
             /\ meta'.materialIndex = meta.materialIndex
             /\ meta'.root = meta.root
     /\ MeshStep("setMaterialIndices")
          => /\ meta'.materialIndex = metaLast'.args
             /\ meta'.meshIndex = meta.meshIndex
             /\ meta'.textureIndex = meta.textureIndex
             /\ meta'.root = meta.root]_vars

\* setTextureIndices has just written a pair that differs from the two other
\* pairs, which earlier calls had set to defined values
C25_Witness ==
  /\ metaLast.op = "setTextureIndices"
  /\ meta.textureIndex = metaLast.args
  /\ meta.textureIndex = <<1, 0>>
  /\ meta.meshIndex = <<0, 1>>
  /\ meta.materialIndex = <<1, 1>>
  /\ UndefinedRoot(meta.root)

\* an object built from (meshStart, meshEnd) alone
C25_WitnessRange ==
  /\ metaLast = MeshCall("MeshMetaData", <<0, 1>>)
  /\ meta.meshIndex = <<0, 1>>
  /\ meta.textureIndex = UndefinedPair

\* a default-constructed object
C25_WitnessDefault ==
  /\ metaLast = MeshCall("MeshMetaData", << >>)
  /\ meta.meshIndex = UndefinedPair

====
